---- MODULE Spec2Model ----
(***************************************************************************)
(* SkyFrame feed selection and seen ledger (src/skyframe/feed.py), with    *)
(* the FeedSeen table of src/skyframe/models.py and the feed handler of    *)
(* src/skyframe/api/routes.py.                                             *)
(*                                                                         *)
(* Strings are sequences of one-character strings.  Timestamps are small   *)
(* naturals (days); datetime.isoformat() of the timestamp t is rendered    *)
(* as "T" followed by the decimal digits of t.  Python's None is the empty *)
(* string for the cursor parts (the code tests them with "not x" / "or"),  *)
(* 0 for an uploader id and for the anonymous user.                        *)
(***************************************************************************)
EXTENDS Integers, Sequences, FiniteSets, TLC

\* ---------------------------------------------------------------- bounds
MaxImages == 3
MaxPerPage == 2
MaxNow == 2

Uploaders == {1, 2}
ObservedTimes == {1, 2}
PctValues == {0, 50, 100}
MultiplierValues == {1, 2}
CapValues == {0, 1}
FreshDaysValues == {0}
RetentionValues == {0}
Viewers == {0, 1}
SeenMaxIdsValues == {3}
SeenEnabledValues == {TRUE}
FollowedUploaders == {1}
MaxLiked == 1
MaxRetention == 1
MaxPaths == 2
MaxUploads == 2
HashHexLen == 1
HammingHexLen == 2
MaxBackfillLimit == 1

\* ---------------------------------------------------------------- strings
Digits == <<"0", "1", "2", "3", "4", "5", "6", "7", "8", "9">>

IsDigit(c) == \E d \in 1..10 : Digits[d] = c

DigitValue(c) == (CHOOSE d \in 1..10 : Digits[d] = c) - 1

RECURSIVE IntToStr(_)
IntToStr(n) ==
    IF n < 10 THEN <<Digits[n + 1]>>
    ELSE IntToStr(n \div 10) \o <<Digits[(n % 10) + 1]>>

RECURSIVE StrToInt(_)
StrToInt(s) ==
    IF Len(s) = 1 THEN DigitValue(s[1])
    ELSE 10 * StrToInt(SubSeq(s, 1, Len(s) - 1)) + DigitValue(s[Len(s)])

IsIntStr(s) == Len(s) > 0 /\ \A i \in 1..Len(s) : IsDigit(s[i])

Contains(s, sub) ==
    \E i \in 1..(Len(s) - Len(sub) + 1) : SubSeq(s, i, i + Len(sub) - 1) = sub

StartsWith(s, pre) == Len(s) >= Len(pre) /\ SubSeq(s, 1, Len(pre)) = pre

RECURSIVE Split(_, _)
Split(s, ch) ==
    IF \A i \in 1..Len(s) : s[i] # ch THEN <<s>>
    ELSE LET k == CHOOSE i \in 1..Len(s) :
                      s[i] = ch /\ \A j \in 1..(i - 1) : s[j] # ch
         IN  <<SubSeq(s, 1, k - 1)>> \o Split(SubSeq(s, k + 1, Len(s)), ch)

RANDOM == <<"r", "a", "n", "d", "o", "m">>
SEEN == <<"s", "e", "e", "n">>
EMPTY == <<>>

isoformat(t) == <<"T">> \o IntToStr(t)

IsIsoStr(s) == Len(s) >= 2 /\ s[1] = "T" /\ IsIntStr(SubSeq(s, 2, Len(s)))

fromisoformat(s) == StrToInt(SubSeq(s, 2, Len(s)))

\* ---------------------------------------------------------------- cursor
FeedCursor(p, g) == [prioritized |-> p, global_new |-> g]

RECURSIVE ParseParts(_, _)
ParseParts(parts, parsed) ==
    IF parts = <<>> THEN parsed
    ELSE LET part == Head(parts)
             nxt == IF StartsWith(part, <<"p", "=">>)
                       THEN [parsed EXCEPT !.prioritized = SubSeq(part, 3, Len(part))]
                    ELSE IF StartsWith(part, <<"g", "=">>)
                       THEN [parsed EXCEPT !.global_new = SubSeq(part, 3, Len(part))]
                    ELSE parsed
         IN  ParseParts(Tail(parts), nxt)

parse_feed_cursor(cursor) ==
    IF cursor = EMPTY THEN FeedCursor(EMPTY, EMPTY)
    ELSE IF Contains(cursor, <<"|">>)
            /\ (Contains(cursor, <<"p", "=">>) \/ Contains(cursor, <<"g", "=">>))
        THEN ParseParts(Split(cursor, "|"), FeedCursor(EMPTY, EMPTY))
    ELSE IF cursor = RANDOM THEN FeedCursor(EMPTY, EMPTY)
    ELSE FeedCursor(EMPTY, cursor)

format_feed_cursor(prioritized, global_new) ==
    IF prioritized = EMPTY /\ global_new = EMPTY THEN EMPTY
    ELSE <<"p", "=">> \o prioritized \o <<"|", "g", "=">> \o global_new

\* Mutant: an id that is not an integer is read as 0 instead of ending in
\* ValueError.
_parse_cursor_point_Lenient(cursor_value) ==
    IF cursor_value = EMPTY THEN [ok |-> FALSE, point |-> 0, image_id |-> 0]
    ELSE LET parts == Split(cursor_value, "_")
         IN  IF Len(parts) = 2 /\ IsIsoStr(parts[1])
                THEN [ok |-> TRUE, point |-> fromisoformat(parts[1]),
                      image_id |-> IF IsIntStr(parts[2]) THEN StrToInt(parts[2])
                                   ELSE 0]
             ELSE [ok |-> FALSE, point |-> 0, image_id |-> 0]

\* [ok |-> FALSE] stands for the (None, None) the code returns.
_parse_cursor_point(cursor_value) ==
    IF cursor_value = EMPTY THEN [ok |-> FALSE, point |-> 0, image_id |-> 0]
    ELSE LET parts == Split(cursor_value, "_")
         IN  IF Len(parts) = 2 /\ IsIsoStr(parts[1]) /\ IsIntStr(parts[2])
                THEN [ok |-> TRUE, point |-> fromisoformat(parts[1]),
                      image_id |-> StrToInt(parts[2])]
             ELSE [ok |-> FALSE, point |-> 0, image_id |-> 0]

\* ---------------------------------------------------------------- state
VARIABLES
    catalog,        \* Image table: catalog[id] = [user_id, observed_at]
    feed_seen,      \* FeedSeen table: the set of its rows [user_id, image_id, seen_at]
    config,         \* current_app.config, the FEED_* settings
    liked_ids,      \* image ids the current user likes
    following_ids,  \* uploader ids the current user follows
    current_user,   \* id of the current user, 0 when anonymous
    now,            \* datetime.utcnow(), in days
    selection,      \* the last call of build_feed_selection: its cursor and what it returned
    pc,             \* per worker: position inside the feed handler
    local,          \* per worker: the handler's local variables
    signatures,     \* Image table, the columns file_path, watermark_hash, signature_*
    files,          \* UPLOAD_PATH/images: files[path] = [exists, data, writer]
    response,       \* the last response of upload, verify_image, verify_file
    blend           \* a call of _blend_feed under way: its loop state

vars == <<catalog, feed_seen, config, liked_ids, following_ids, current_user, now,
          selection, pc, local, signatures, files, response, blend>>

\* what the feed handlers leave alone
storeVars == <<signatures, files, response, blend>>

ImageIds == 1..Len(catalog)

Min(a, b) == IF a < b THEN a ELSE b

Max(a, b) == IF a > b THEN a ELSE b

RECURSIVE SeqToSet(_)
SeqToSet(s) == IF s = <<>> THEN {} ELSE {Head(s)} \cup SeqToSet(Tail(s))

\* .limit(n) of a query
Limit(rows, n) == SubSeq(rows, 1, Min(Max(n, 0), Len(rows)))

\* .order_by(func.random()).limit(n): every arrangement of n rows (all, if fewer)
RECURSIVE OrderByRandomLimit(_, _)
OrderByRandomLimit(S, n) ==
    IF n <= 0 \/ S = {} THEN {<<>>}
    ELSE UNION {{<<x>> \o t : t \in OrderByRandomLimit(S \ {x}, n - 1)} : x \in S}

\* .order_by(Image.observed_at.desc(), Image.id.desc())
RECURSIVE OrderByObservedDesc(_)
OrderByObservedDesc(S) ==
    IF S = {} THEN <<>>
    ELSE LET first == CHOOSE x \in S : \A y \in S :
                          \/ catalog[x].observed_at > catalog[y].observed_at
                          \/ (catalog[x].observed_at = catalog[y].observed_at /\ x >= y)
         IN  <<first>> \o OrderByObservedDesc(S \ {first})

\* ---------------------------------------------------------------- feed.py
\* The filter of _apply_cursor, as a predicate on an image id.
_apply_cursor(id, cursor_value) ==
    LET c == _parse_cursor_point(cursor_value)
    IN  IF ~c.ok THEN TRUE
        ELSE \/ catalog[id].observed_at < c.point
             \/ (catalog[id].observed_at = c.point /\ id < c.image_id)

\* The or_() of _prioritized_filter, as a predicate on an image id.
_prioritized_filter(id, liked, following) ==
    id \in liked \/ catalog[id].user_id \in following

\* Mutant: the per-uploader cap is not tested.
_pop_next_valid_NoUploaderCap(pool, per_uploader_counts, last_uploader, consecutive, max_per_uploader, max_consecutive) ==
    LET Blocked(idx) ==
            /\ max_consecutive > 0
            /\ last_uploader = catalog[pool[idx]].user_id
            /\ consecutive >= max_consecutive
        Valid == {idx \in 1..Len(pool) : ~Blocked(idx)}
    IN  IF Valid = {} THEN 0 ELSE CHOOSE idx \in Valid : \A j \in Valid : idx <= j

\* Mutant: the consecutive cap is not tested.
_pop_next_valid_NoConsecutiveCap(pool, per_uploader_counts, last_uploader, consecutive, max_per_uploader, max_consecutive) ==
    LET Blocked(idx) ==
            /\ max_per_uploader > 0
            /\ per_uploader_counts[catalog[pool[idx]].user_id] >= max_per_uploader
        Valid == {idx \in 1..Len(pool) : ~Blocked(idx)}
    IN  IF Valid = {} THEN 0 ELSE CHOOSE idx \in Valid : \A j \in Valid : idx <= j

\* Index of the first candidate of the pool no cap blocks, 0 when there is none.
_pop_next_valid(pool, per_uploader_counts, last_uploader, consecutive, max_per_uploader, max_consecutive) ==
    LET Blocked(idx) ==
            LET uploader_id == catalog[pool[idx]].user_id
            IN  \/ (max_per_uploader > 0
                    /\ per_uploader_counts[uploader_id] >= max_per_uploader)
                \/ (max_consecutive > 0 /\ last_uploader = uploader_id
                    /\ consecutive >= max_consecutive)
        Valid == {idx \in 1..Len(pool) : ~Blocked(idx)}
    IN  IF Valid = {} THEN 0 ELSE CHOOSE idx \in Valid : \A j \in Valid : idx <= j

\* Mutant: the candidates passed over before idx are dropped with it.
Pop_DropSkipped(pool, idx) == SubSeq(pool, idx + 1, Len(pool))

\* pool.pop(idx)
Pop(pool, idx) == SubSeq(pool, 1, idx - 1) \o SubSeq(pool, idx + 1, Len(pool))

BlendInit(prioritized, global_new) ==
    [output |-> <<>>, per_uploader_counts |-> [u \in Uploaders |-> 0],
     last_uploader |-> 0, consecutive |-> 0, prioritized_taken |-> 0,
     last_prioritized |-> 0, last_global |-> 0,
     prioritized |-> prioritized, global_new |-> global_new]

\* One pass of the while loop of _blend_feed from the loop state b; b itself
\* when the loop condition fails or the pass ends in break.
BlendStep(b, per_page, prioritized_target, max_per_uploader, max_consecutive) ==
    IF ~(Len(b.output) < per_page /\ (b.prioritized # <<>> \/ b.global_new # <<>>))
    THEN b
    ELSE
    LET take_prioritized == b.prioritized_taken < prioritized_target
        ip == _pop_next_valid(b.prioritized, b.per_uploader_counts, b.last_uploader,
                              b.consecutive, max_per_uploader, max_consecutive)
        ig == _pop_next_valid(b.global_new, b.per_uploader_counts, b.last_uploader,
                              b.consecutive, max_per_uploader, max_consecutive)
        picked_from_prioritized ==
            IF take_prioritized THEN ip # 0 ELSE (ig = 0 /\ ip # 0)
    IN  IF ip = 0 /\ ig = 0 THEN b
        ELSE
        LET selected == IF picked_from_prioritized THEN b.prioritized[ip]
                        ELSE b.global_new[ig]
            selected_uploader == catalog[selected].user_id
            nb == [b EXCEPT
                     !.output = Append(@, selected),
                     !.per_uploader_counts[selected_uploader] = @ + 1,
                     !.consecutive = IF b.last_uploader = selected_uploader
                                        THEN @ + 1 ELSE 1,
                     !.last_uploader = selected_uploader,
                     !.prioritized_taken = IF picked_from_prioritized THEN @ + 1 ELSE @,
                     !.last_prioritized = IF picked_from_prioritized THEN selected ELSE @,
                     !.last_global = IF picked_from_prioritized THEN @ ELSE selected,
                     !.prioritized = IF picked_from_prioritized THEN Pop(@, ip) ELSE @,
                     !.global_new = IF picked_from_prioritized THEN @ ELSE Pop(@, ig)]
        IN  nb

\* The while loop of _blend_feed, from the loop state b.
RECURSIVE BlendLoop(_, _, _, _, _)
BlendLoop(b, per_page, prioritized_target, max_per_uploader, max_consecutive) ==
    LET nb == BlendStep(b, per_page, prioritized_target, max_per_uploader,
                        max_consecutive)
    IN  IF nb = b THEN b
        ELSE BlendLoop(nb, per_page, prioritized_target, max_per_uploader,
                       max_consecutive)

\* no call of _blend_feed under way
NoBlend == [called |-> FALSE, returned |-> FALSE, b |-> BlendInit(<<>>, <<>>)]

\* Mutant: the loop tests len(output) <= per_page.
_blend_feed_OffByOne(prioritized, global_new, per_page, prioritized_target, max_per_uploader, max_consecutive) ==
    BlendLoop(BlendInit(prioritized, global_new), per_page + 1, prioritized_target,
              max_per_uploader, max_consecutive)

\* Mutant: the two pools are passed in the wrong order.
_blend_feed_PoolsSwapped(prioritized, global_new, per_page, prioritized_target, max_per_uploader, max_consecutive) ==
    BlendLoop(BlendInit(global_new, prioritized), per_page, prioritized_target,
              max_per_uploader, max_consecutive)

_blend_feed(prioritized, global_new, per_page, prioritized_target, max_per_uploader, max_consecutive) ==
    BlendLoop(BlendInit(prioritized, global_new), per_page, prioritized_target,
              max_per_uploader, max_consecutive)

\* [has |-> FALSE] stands for None.
_fresh_cutoff(days) ==
    IF days <= 0 THEN [has |-> FALSE, at |-> 0] ELSE [has |-> TRUE, at |-> now - days]

\* Python's round(): half to even, of per_page * pct / 100.
PyRound100(n) ==
    LET q == n \div 100
        r == n % 100
    IN  IF 2 * r < 100 THEN q
        ELSE IF 2 * r > 100 THEN q + 1
        ELSE IF q % 2 = 0 THEN q ELSE q + 1

\* The sets of image ids _load_seen_ids can return: the max_ids most recent rows
\* of the user within the retention window; rows of equal seen_at at the limit
\* are taken in an order the database chooses.
_load_seen_ids(user_id, retention_days, max_ids) ==
    LET cutoff == _fresh_cutoff(retention_days)
        rows == {row \in feed_seen :
                    /\ row.user_id = user_id
                    /\ (cutoff.has => row.seen_at >= cutoff.at)}
        n == Min(Max(max_ids, 0), Cardinality(rows))
    IN  {{row.image_id : row \in T} :
            T \in {T \in SUBSET rows :
                     /\ Cardinality(T) = n
                     /\ \A a \in T, b \in rows \ T : a.seen_at >= b.seen_at}}

\* The prioritized query of build_feed_selection, empty when prioritized_filter
\* is None.
PrioritizedQuery(liked, following, cutoff, seen_ids, use_seen, cursor_value, candidate_limit) ==
    IF liked = {} /\ following = {} THEN <<>>
    ELSE Limit(OrderByObservedDesc(
            {id \in ImageIds :
                /\ _prioritized_filter(id, liked, following)
                /\ (cutoff.has => catalog[id].observed_at >= cutoff.at)
                /\ id \notin seen_ids
                /\ (~use_seen => _apply_cursor(id, cursor_value))}),
            candidate_limit)

\* Mutant: the seen ids are not filtered out of the random query.
RandomQuery_SeenNotExcluded(seen_ids, prioritized_ids, candidate_limit) ==
    OrderByRandomLimit(ImageIds \ prioritized_ids, candidate_limit)

\* Mutant: the random query is limited to one row less.
RandomQuery_ShortLimit(seen_ids, prioritized_ids, candidate_limit) ==
    OrderByRandomLimit((ImageIds \ seen_ids) \ prioritized_ids, candidate_limit - 1)

\* Mutant: the prioritized candidates are not filtered out of the random query.
RandomQuery_PrioritizedNotExcluded(seen_ids, prioritized_ids, candidate_limit) ==
    OrderByRandomLimit(ImageIds \ seen_ids, candidate_limit)

\* random_query: what .order_by(func.random()).limit(candidate_limit) can return
RandomQuery(seen_ids, prioritized_ids, candidate_limit) ==
    OrderByRandomLimit((ImageIds \ seen_ids) \ prioritized_ids, candidate_limit)

\* Mutant: no fallback, the empty page is returned.
FallbackQuery_None(per_page) == {<<>>}

\* Image.query.order_by(func.random()).limit(per_page), the fallback
FallbackQuery(per_page) == OrderByRandomLimit(ImageIds, per_page)

\* Mutant: the fallback always announces a further page.
FallbackCursor_Always(images) == RANDOM

\* next_cursor = "random" if images else "", after the fallback
FallbackCursor(images) == IF images # <<>> THEN RANDOM ELSE EMPTY

\* What one call can return, over the draws of func.random() and the order the
\* database breaks seen_at ties in.  Besides the four fields of FeedSelection the
\* records carry the locals prioritized_candidates and random_candidates and
\* blended, the page _blend_feed produced (before the fallback).
build_feed_selection(liked, following, per_page, cursor, fresh_days, prioritized_pct, candidate_multiplier, max_per_uploader, max_consecutive, seen_enabled, seen_user_id, seen_retention_days, seen_max_ids) ==
    LET pct == Max(0, Min(prioritized_pct, 100))
        use_seen == seen_enabled /\ seen_user_id # 0
        prioritized_target == PyRound100(per_page * pct)
        candidate_limit == Max(per_page * candidate_multiplier, per_page)
        cursor_state == parse_feed_cursor(cursor)
        cutoff == _fresh_cutoff(fresh_days)
        filter_is_none == liked = {} /\ following = {}
        Blended(seen_ids, prioritized_candidates, random_candidates, b) ==
            LET images == b.output
                has_more == Len(prioritized_candidates) + Len(random_candidates)
                                > Len(images)
                prioritized_cursor ==
                    IF b.last_prioritized # 0 /\ ~filter_is_none
                       THEN isoformat(catalog[b.last_prioritized].observed_at)
                                \o <<"_">> \o IntToStr(b.last_prioritized)
                    ELSE cursor_state.prioritized
                global_cursor == IF random_candidates # <<>> THEN RANDOM
                                 ELSE cursor_state.global_new
                next_cursor ==
                    IF use_seen THEN (IF has_more THEN SEEN ELSE EMPTY)
                    ELSE IF images = <<>> THEN EMPTY
                    ELSE format_feed_cursor(prioritized_cursor, global_cursor)
            IN  IF images = <<>>
                   THEN {[images |-> fallback_images,
                          next_cursor |-> FallbackCursor(fallback_images),
                          seen_ids |-> seen_ids,
                          has_more |-> fallback_images # <<>>,
                          prioritized_candidates |-> prioritized_candidates,
                          random_candidates |-> random_candidates,
                          blended |-> images] :
                            fallback_images \in FallbackQuery(per_page)}
                ELSE {[images |-> images, next_cursor |-> next_cursor,
                       seen_ids |-> seen_ids, has_more |-> has_more,
                       prioritized_candidates |-> prioritized_candidates,
                       random_candidates |-> random_candidates,
                       blended |-> images]}
    IN  UNION {UNION {UNION {UNION {
            Blended(seen_ids, prioritized_candidates, random_candidates, b) :
                b \in {_blend_feed(prioritized_candidates, random_candidates, per_page,
                                   prioritized_target, max_per_uploader,
                                   max_consecutive)}} :
                random_candidates \in
                    RandomQuery(seen_ids, SeqToSet(prioritized_candidates),
                                candidate_limit)} :
                prioritized_candidates \in
                    {PrioritizedQuery(liked, following, cutoff, seen_ids, use_seen,
                                      cursor_state.prioritized, candidate_limit)}} :
                seen_ids \in
                    IF use_seen
                       THEN _load_seen_ids(seen_user_id, seen_retention_days,
                                           seen_max_ids)
                    ELSE {{}}}

\* The SELECT of _persist_seen_ids: the ids among image_ids the user has a row for.
SelectExisting(user_id, image_ids) ==
    {row.image_id : row \in {row \in feed_seen :
                                /\ row.user_id = user_id
                                /\ row.image_id \in SeqToSet(image_ids)}}

\* uq_feed_seen_user_image: the INSERT of new_rows into the table fails when two
\* rows would have the same (user_id, image_id).
UniqueConstraintHolds(table, new_rows) ==
    /\ \A k \in 1..Len(new_rows) : \A row \in table :
          ~(row.user_id = new_rows[k].user_id /\ row.image_id = new_rows[k].image_id)
    /\ \A j, k \in 1..Len(new_rows) :
          (new_rows[j].user_id = new_rows[k].user_id
             /\ new_rows[j].image_id = new_rows[k].image_id) => j = k

\* Mutant: an upsert, the rows found by the SELECT get seen_at = now.
_persist_seen_ids_Touch(user_id, image_ids, retention_days, existing) ==
    LET Keep(image_id) == image_id \notin existing
        kept == SelectSeq(image_ids, Keep)
        new_rows == [k \in 1..Len(kept) |->
                        [user_id |-> user_id, image_id |-> kept[k], seen_at |-> now]]
        touched == {IF row.user_id = user_id /\ row.image_id \in existing
                       THEN [row EXCEPT !.seen_at = now] ELSE row : row \in feed_seen}
        inserted == touched \cup SeqToSet(new_rows)
        cutoff == now - retention_days
    IN  IF image_ids = <<>> THEN [ok |-> TRUE, rows |-> feed_seen]
        ELSE IF ~UniqueConstraintHolds(feed_seen, new_rows)
           THEN [ok |-> FALSE, rows |-> feed_seen]
        ELSE IF retention_days > 0
           THEN [ok |-> TRUE,
                 rows |-> {row \in inserted :
                              ~(row.user_id = user_id /\ row.seen_at < cutoff)}]
        ELSE [ok |-> TRUE, rows |-> inserted]

\* Mutant: the DELETE lacks the filter on user_id.
_persist_seen_ids_PruneAll(user_id, image_ids, retention_days, existing) ==
    LET Keep(image_id) == image_id \notin existing
        kept == SelectSeq(image_ids, Keep)
        new_rows == [k \in 1..Len(kept) |->
                        [user_id |-> user_id, image_id |-> kept[k], seen_at |-> now]]
        inserted == feed_seen \cup SeqToSet(new_rows)
        cutoff == now - retention_days
    IN  IF image_ids = <<>> THEN [ok |-> TRUE, rows |-> feed_seen]
        ELSE IF ~UniqueConstraintHolds(feed_seen, new_rows)
           THEN [ok |-> FALSE, rows |-> feed_seen]
        ELSE IF retention_days > 0
           THEN [ok |-> TRUE, rows |-> {row \in inserted : ~(row.seen_at < cutoff)}]
        ELSE [ok |-> TRUE, rows |-> inserted]

\* _persist_seen_ids, with existing the result of its SELECT, which a worker
\* reads in an earlier step than it writes.  [ok |-> FALSE] is the
\* IntegrityError of an INSERT that breaks uq_feed_seen_user_image: the
\* exception leaves the function and nothing is committed.
_persist_seen_ids(user_id, image_ids, retention_days, existing) ==
    LET Keep(image_id) == image_id \notin existing
        kept == SelectSeq(image_ids, Keep)
        new_rows == [k \in 1..Len(kept) |->
                        [user_id |-> user_id, image_id |-> kept[k], seen_at |-> now]]
        inserted == feed_seen \cup SeqToSet(new_rows)
        cutoff == now - retention_days
    IN  IF image_ids = <<>> THEN [ok |-> TRUE, rows |-> feed_seen]
        ELSE IF ~UniqueConstraintHolds(feed_seen, new_rows)
           THEN [ok |-> FALSE, rows |-> feed_seen]
        ELSE IF retention_days > 0
           THEN [ok |-> TRUE,
                 rows |-> {row \in inserted :
                              ~(row.user_id = user_id /\ row.seen_at < cutoff)}]
        ELSE [ok |-> TRUE, rows |-> inserted]

\* persist_seen_for_feed run without interleaving
persist_seen_for_feed(user_id, images, retention_days) ==
    IF user_id = 0 THEN [ok |-> TRUE, rows |-> feed_seen]
    ELSE _persist_seen_ids(user_id, images, retention_days,
                           SelectExisting(user_id, images))

\* ---------------------------------------------------------------- store
\* NULL in a column, None
NULL == <<>>

\* the file names uuid4().hex[:6] can give one base name
Paths == 1..MaxPaths

\* the signature columns of a row written before the columns existed
NoSignature ==
    [file_path |-> 0, watermark_hash |-> NULL, signature_sha256 |-> NULL,
     signature_phash |-> NULL, signature_dhash |-> NULL]

\* files[path].writer is the id of the image whose upload wrote the file last,
\* 0 when something else did
NoFiles == [path \in Paths |-> [exists |-> FALSE, data |-> <<>>, writer |-> 0]]

NoResponse ==
    [kind |-> "none", status |-> 0, probe |-> <<>>, valid |-> FALSE,
     similar |-> FALSE, image_id |-> 0, phash_distance |-> 0, dhash_distance |-> 0,
     computed_hash |-> NULL, scan |-> <<>>, value |-> NULL, error |-> "",
     queries |-> 0]

\* ---------------------------------------------------------------- bytes
\* Bytes are 0..255 and a str is the sequence of its ASCII codes.
HexLower == <<48, 49, 50, 51, 52, 53, 54, 55, 56, 57, 97, 98, 99, 100, 101, 102>>

IsHexByte(b) == b \in 48..57 \/ b \in 97..102 \/ b \in 65..70

HexByteValue(b) ==
    IF b \in 48..57 THEN b - 48 ELSE IF b \in 97..102 THEN b - 87 ELSE b - 55

\* str.lower() on one character
Lower(b) == IF b \in 65..90 THEN b + 32 ELSE b

\* f"{v:0{width}x}"; the source's width is 16, the model's HashHexLen
RECURSIVE HexDigitsOf(_, _)
HexDigitsOf(v, width) ==
    IF width <= 0 /\ v = 0 THEN <<>>
    ELSE HexDigitsOf(v \div 16, width - 1) \o <<HexLower[(v % 16) + 1]>>

IsHexStr(s) == Len(s) > 0 /\ \A i \in 1..Len(s) : IsHexByte(s[i])

\* int(s, 16)
RECURSIVE HexToInt(_)
HexToInt(s) ==
    IF s = <<>> THEN 0
    ELSE 16 * HexToInt(SubSeq(s, 1, Len(s) - 1)) + HexByteValue(s[Len(s)])

\* int.bit_count()
RECURSIVE BitCount(_)
BitCount(n) == IF n = 0 THEN 0 ELSE (n % 2) + BitCount(n \div 2)

\* Mutant: bitwise or instead of exclusive or.
RECURSIVE Xor_Or(_, _)
Xor_Or(a, b) ==
    IF a = 0 /\ b = 0 THEN 0
    ELSE (IF (a % 2) + (b % 2) > 0 THEN 1 ELSE 0) + 2 * Xor_Or(a \div 2, b \div 2)

\* a ^ b
RECURSIVE Xor(_, _)
Xor(a, b) ==
    IF a = 0 /\ b = 0 THEN 0
    ELSE (((a % 2) + (b % 2)) % 2) + 2 * Xor(a \div 2, b \div 2)

\* [ok |-> FALSE] stands for None.
_hamming_distance(left, right) ==
    IF left = NULL \/ right = NULL THEN [ok |-> FALSE, d |-> 0]
    ELSE IF ~IsHexStr(left) \/ ~IsHexStr(right) THEN [ok |-> FALSE, d |-> 0]
    ELSE [ok |-> TRUE, d |-> BitCount(Xor(HexToInt(left), HexToInt(right)))]

\* hashlib.sha256(data).hexdigest(): equal digests come from equal data only.
sha256(data) == <<"sha256">> \o data

\* ---------------------------------------------------------------- JPEG files
\* An image is what its two perceptual hashes see of its pixels, [p, d].
PixelValues == {0, 1, 3}

Pictures == [p : PixelValues, d : PixelValues]

SOI == <<255, 216>>
APP0 == <<255, 224, 0, 16, 74, 70, 73, 70, 0, 1, 1, 0, 0, 1, 0, 1, 0, 0>>
SOS == <<255, 218>>
EOI == <<255, 217>>

\* b"SkyFrame "
SKYFRAME_MARKER == <<83, 107, 121, 70, 114, 97, 109, 101, 32>>

\* the COM segment: marker, two length bytes (the length counts them), comment
COM(comment) ==
    <<255, 254, (Len(comment) + 2) \div 256, (Len(comment) + 2) % 256>> \o comment

\* Image.save(path, "JPEG", comment=comment): the bytes of the file
JpegSave(image, comment) ==
    SOI \o APP0 \o (IF comment = <<>> THEN <<>> ELSE COM(comment))
        \o SOS \o <<image.p, image.d>> \o EOI

\* Image.open(BytesIO(data)): [ok |-> FALSE] stands for the exception PIL raises
\* on bytes that are no image; comment is info.get("comment").
ImageOpen(data) ==
    LET n == Len(data)
        has_com == n >= 24 /\ SubSeq(data, 21, 22) = <<255, 254>>
        com_len == IF has_com THEN data[23] * 256 + data[24] ELSE 0
        body == IF has_com THEN 23 + com_len ELSE 21
    IN  IF /\ n >= 20
           /\ SubSeq(data, 1, 20) = SOI \o APP0
           /\ (has_com => com_len >= 2)
           /\ n = body + 5
           /\ SubSeq(data, body, body + 1) = SOS
           /\ SubSeq(data, body + 4, body + 5) = EOI
           THEN [ok |-> TRUE,
                 comment |-> IF has_com THEN SubSeq(data, 25, 22 + com_len) ELSE <<>>,
                 image |-> [p |-> data[body + 2], d |-> data[body + 3]]]
        ELSE [ok |-> FALSE, comment |-> <<>>, image |-> [p |-> 0, d |-> 0]]

_phash_from_image(image) == HexDigitsOf(image.p, HashHexLen)

_dhash_from_image(image) == HexDigitsOf(image.d, HashHexLen)

\* Mutant: bytes that are no image are hashed as a blank picture.
perceptual_hashes_for_bytes_NoRaise(data) ==
    [ok |-> TRUE, phash |-> HexDigitsOf(0, HashHexLen), dhash |-> HexDigitsOf(0, HashHexLen)]

\* [ok |-> FALSE]: Image.open raised
perceptual_hashes_for_bytes(data) ==
    LET opened == ImageOpen(data)
    IN  [ok |-> opened.ok, phash |-> _phash_from_image(opened.image),
         dhash |-> _dhash_from_image(opened.image)]

\* The signatures _build_watermark_payload can return: the first hex digits of
\* the digest of owner|timestamp.
WatermarkIds == {<<97, 49>>}

\* Mutant: the content hash is taken from the uploaded stream, before the
\* watermarked file is written.
process_image_upload_HashFirst(allowed, upload, identifier, watermark_hash, stored) ==
    LET data == JpegSave(stored, SKYFRAME_MARKER \o watermark_hash)
        hashes == perceptual_hashes_for_bytes(data)
    IN  IF ~allowed THEN [raised |-> "ValueError"]
        ELSE IF ~ImageOpen(upload).ok THEN [raised |-> "UnidentifiedImageError"]
        ELSE [raised |-> "", file_path |-> identifier, data |-> data,
              watermark_hash |-> watermark_hash, signature_sha256 |-> sha256(upload),
              signature_phash |-> hashes.phash, signature_dhash |-> hashes.dhash]

\* process_image_upload: allowed is _allowed_file(filename), upload the bytes of
\* the stream, identifier the file name drawn from uuid4, watermark_hash the
\* signature of the payload, and stored the picture after thumbnail(),
\* _apply_invisible_watermark and the lossy encoding.  The file at img_path is
\* written first; the three hashes are read back from it.
process_image_upload(allowed, upload, identifier, watermark_hash, stored) ==
    LET data == JpegSave(stored, SKYFRAME_MARKER \o watermark_hash)
        hashes == perceptual_hashes_for_bytes(data)
    IN  IF ~allowed THEN [raised |-> "ValueError"]
        ELSE IF ~ImageOpen(upload).ok THEN [raised |-> "UnidentifiedImageError"]
        ELSE [raised |-> "", file_path |-> identifier, data |-> data,
              watermark_hash |-> watermark_hash, signature_sha256 |-> sha256(data),
              signature_phash |-> hashes.phash, signature_dhash |-> hashes.dhash]

\* ---------------------------------------------------------------- watermark
\* how many letters s the string has from s[k] on
RECURSIVE LetterSRun(_, _)
LetterSRun(s, k) ==
    IF k > Len(s) \/ s[k] # 115 THEN 0 ELSE 1 + LetterSRun(s, k + 1)

\* how many hex digits the string has from s[k] on
RECURSIVE HexRun(_, _)
HexRun(s, k) ==
    IF k > Len(s) \/ ~IsHexByte(s[k]) THEN 0 ELSE 1 + HexRun(s, k + 1)

\* The pattern r"SkyFrame\\s+([0-9a-fA-F]+)" at position i: the word SkyFrame,
\* a backslash, one or more letters s, one or more hex digits.
RegexMatchAt(comment, i) ==
    /\ i + 8 <= Len(comment)
    /\ SubSeq(comment, i, i + 7) = SubSeq(SKYFRAME_MARKER, 1, 8)
    /\ comment[i + 8] = 92
    /\ LetterSRun(comment, i + 9) >= 1
    /\ HexRun(comment, i + 9 + LetterSRun(comment, i + 9)) >= 1

\* re.search(...), then match.group(1).lower(); NULL when there is no match
RegexSearch(comment) ==
    IF \E i \in 1..Len(comment) : RegexMatchAt(comment, i)
       THEN LET i == CHOOSE i \in 1..Len(comment) :
                        /\ RegexMatchAt(comment, i)
                        /\ \A j \in 1..(i - 1) : ~RegexMatchAt(comment, j)
                start == i + 9 + LetterSRun(comment, i + 9)
                group == SubSeq(comment, start,
                                start + HexRun(comment, start) - 1)
            IN  [k \in 1..Len(group) |-> Lower(group[k])]
    ELSE NULL

\* bytes.find(marker): the 0-based position, -1 when absent
Find(segment, marker) ==
    LET At(pos) ==
            /\ pos + Len(marker) <= Len(segment)
            /\ SubSeq(segment, pos + 1, pos + Len(marker)) = marker
    IN  IF \E pos \in 0..Len(segment) : At(pos)
           THEN CHOOSE pos \in 0..Len(segment) :
                    At(pos) /\ \A q \in 0..(pos - 1) : ~At(q)
        ELSE -1

\* The while loop of read_watermark_comment_bytes from idx on (0-based, as in
\* the code); NULL when it ends without a return.
RECURSIVE ScanSegments(_, _)
ScanSegments(data, idx) ==
    LET length == Len(data)
    IN  IF ~(idx + 4 < length) THEN NULL
        ELSE IF data[idx + 1] # 255 THEN ScanSegments(data, idx + 1)
        ELSE LET marker_id == data[idx + 2]
                 segment_length == data[idx + 3] * 256 + data[idx + 4]
                 segment_start == idx + 4
                 segment_end == segment_start + segment_length - 2
                 segment == SubSeq(data, segment_start + 1, segment_end)
                 pos == Find(segment, SKYFRAME_MARKER)
                 found == IF marker_id = 254 /\ pos # -1
                             THEN RegexSearch(SubSeq(segment, pos + 1, Len(segment)))
                          ELSE NULL
             IN  IF marker_id = 218 \/ marker_id = 217 THEN NULL
                 ELSE IF segment_end > length THEN NULL
                 ELSE IF found # NULL THEN found
                 ELSE ScanSegments(data, segment_end)

\* NULL stands for None.
read_watermark_comment_bytes(data) ==
    LET scanned == ScanSegments(data, 0)
        opened == ImageOpen(data)
    IN  IF scanned # NULL THEN scanned
        ELSE IF opened.ok /\ opened.comment # <<>> THEN RegexSearch(opened.comment)
        ELSE NULL

\* ---------------------------------------------------------------- verify
\* Mutant: a candidate of equal score replaces the best one.
Better_OrEqual(score, best) == ~best.has \/ score <= best.score

\* best_score is None or score < best_score
Better(score, best) == ~best.has \/ score < best.score

\* The loop of verify_file over the candidates from scan[k] on.
RECURSIVE BestMatch(_, _, _, _, _, _, _)
BestMatch(scan, k, best, phash_value, dhash_value, max_phash, max_dhash) ==
    IF k > Len(scan) THEN best
    ELSE LET row == signatures[scan[k]]
             phash_dist == _hamming_distance(phash_value, row.signature_phash)
             dhash_dist == _hamming_distance(dhash_value, row.signature_dhash)
             score == phash_dist.d + dhash_dist.d
             nxt == IF /\ phash_dist.ok /\ dhash_dist.ok
                       /\ phash_dist.d <= max_phash /\ dhash_dist.d <= max_dhash
                       /\ Better(score, best)
                       THEN [has |-> TRUE, id |-> scan[k], score |-> score,
                             phash_dist |-> phash_dist.d, dhash_dist |-> dhash_dist.d]
                    ELSE best
         IN  BestMatch(scan, k + 1, nxt, phash_value, dhash_value, max_phash,
                       max_dhash)

\* the rows the candidates query returns
Candidates ==
    {id \in 1..Len(signatures) :
        signatures[id].signature_phash # NULL /\ signatures[id].signature_dhash # NULL}

\* Mutant: the lookup matches every row that has a content hash.
ExactMatches_AnySigned(computed_hash) ==
    {id \in 1..Len(signatures) : signatures[id].signature_sha256 # NULL}

\* the rows filter_by(signature_sha256=computed_hash) matches
ExactMatches(computed_hash) ==
    {id \in 1..Len(signatures) : signatures[id].signature_sha256 = computed_hash}

\* the orders a query without ORDER BY can return the rows S in
ScanOrders(S) ==
    {scan \in [1..Cardinality(S) -> S] :
        \A j, k \in 1..Cardinality(S) : scan[j] = scan[k] => j = k}

\* verify_file: has_file is whether the form has a file with a name, data its
\* bytes, first the row .first() returns (0: none) and scan the order of the
\* candidates query.  request.content_length is taken as the length of the file.
verify_file(has_file, data, first, scan) ==
    LET computed_hash == sha256(data)
        hashes == perceptual_hashes_for_bytes(data)
        best == BestMatch(scan, 1, [has |-> FALSE, id |-> 0, score |-> 0,
                                    phash_dist |-> 0, dhash_dist |-> 0],
                          hashes.phash, hashes.dhash,
                          config.VERIFY_PHASH_MAX_DISTANCE,
                          config.VERIFY_DHASH_MAX_DISTANCE)
        base == [NoResponse EXCEPT !.kind = "verify_file",
                                   !.probe = IF has_file THEN data ELSE <<>>]
    IN  IF Len(data) > 0 /\ Len(data) > config.VERIFY_MAX_BYTES
           THEN [base EXCEPT !.status = 413, !.error = "file too large"]
        ELSE IF ~has_file THEN [base EXCEPT !.status = 400, !.error = "missing file"]
        ELSE IF ~hashes.ok
           THEN [base EXCEPT !.status = 400, !.error = "invalid image file"]
        ELSE IF first # 0
           THEN [base EXCEPT !.status = 200, !.valid = TRUE, !.image_id = first,
                             !.computed_hash = computed_hash, !.queries = 1]
        ELSE IF ~config.VERIFY_SIMILARITY_ENABLED
           THEN [base EXCEPT !.status = 200, !.computed_hash = computed_hash,
                             !.queries = 1]
        ELSE IF ~best.has
           THEN [base EXCEPT !.status = 200, !.computed_hash = computed_hash,
                             !.scan = scan, !.queries = 2]
        ELSE [base EXCEPT !.status = 200, !.computed_hash = computed_hash,
                          !.scan = scan, !.similar = TRUE, !.image_id = best.id,
                          !.queries = 2,
                          !.phash_distance = best.phash_dist,
                          !.dhash_distance = best.dhash_dist]

\* verify_image
verify_image(image_id) ==
    LET base == [NoResponse EXCEPT !.kind = "verify_image", !.image_id = image_id]
        file == files[signatures[image_id].file_path]
        computed_hash == sha256(file.data)
        stored_hash == signatures[image_id].signature_sha256
    IN  IF image_id \notin 1..Len(signatures) THEN [base EXCEPT !.status = 404]
        ELSE IF ~file.exists THEN [base EXCEPT !.status = 404]
        ELSE IF stored_hash = NULL
           THEN [base EXCEPT !.status = 200, !.computed_hash = computed_hash]
        ELSE [base EXCEPT !.status = 200, !.computed_hash = computed_hash,
                          !.valid = (stored_hash = computed_hash)]

\* ---------------------------------------------------------------- handlers
Workers == {1, 2}

NoSelection ==
    [called |-> FALSE, cursor |-> EMPTY, images |-> <<>>, next_cursor |-> EMPTY,
     seen_ids |-> {}, has_more |-> FALSE, prioritized_candidates |-> <<>>,
     random_candidates |-> <<>>, blended |-> <<>>, persisted |-> TRUE,
     status |-> 0]

NoLocal == [images |-> <<>>, existing |-> {}]

\* Image tables of up to MaxImages rows; ids are given in insertion order and
\* uploader ids in order of first upload.
Catalogs ==
    {c \in UNION {[1..n -> [user_id : Uploaders, observed_at : ObservedTimes]] :
                     n \in 0..MaxImages} :
        \A i \in 1..Len(c) : \A u \in Uploaders :
            (c[i].user_id = u /\ u > 1) => \E j \in 1..(i - 1) : c[j].user_id = u - 1}

Configs ==
    [per_page : 1..MaxPerPage, fresh_days : FreshDaysValues,
     prioritized_pct : PctValues, candidate_multiplier : MultiplierValues,
     max_per_uploader : CapValues, max_consecutive : CapValues,
     seen_enabled : SeenEnabledValues, seen_retention_days : RetentionValues,
     seen_max_ids : SeenMaxIdsValues]

Init ==
    /\ catalog \in Catalogs
    /\ config \in Configs
    /\ liked_ids \in {l \in SUBSET (1..Len(catalog)) : Cardinality(l) <= MaxLiked}
    /\ following_ids \in SUBSET FollowedUploaders
    /\ current_user \in Viewers
    /\ current_user = 0 => (liked_ids = {} /\ following_ids = {})
    /\ feed_seen = {}
    /\ now = 0
    /\ selection = NoSelection
    /\ pc = [w \in Workers |-> "idle"]
    /\ local = [w \in Workers |-> NoLocal]
    /\ signatures = [id \in 1..Len(catalog) |-> NoSignature]
    /\ files = NoFiles
    /\ response = NoResponse
    /\ blend = NoBlend

\* The client sends as ?cursor= the next_cursor of the last response (nothing on
\* the first request, and after a response without next_cursor).
Cursors == {selection.next_cursor}

Select(cursor) ==
    build_feed_selection(liked_ids, following_ids, config.per_page, cursor,
                         config.fresh_days, config.prioritized_pct,
                         config.candidate_multiplier, config.max_per_uploader,
                         config.max_consecutive, config.seen_enabled, current_user,
                         config.seen_retention_days, config.seen_max_ids)

Called(cursor, s, ok) ==
    [called |-> TRUE, cursor |-> cursor, images |-> s.images,
     next_cursor |-> s.next_cursor, seen_ids |-> s.seen_ids, has_more |-> s.has_more,
     prioritized_candidates |-> s.prioritized_candidates,
     random_candidates |-> s.random_candidates, blended |-> s.blended,
     persisted |-> ok, status |-> IF ok THEN 200 ELSE 500]

\* GET /api/feed?cursor=... served without interleaving: build_feed_selection,
\* then persist_seen_for_feed.
Request(cursor) ==
    \E s \in Select(cursor) :
        LET r == persist_seen_for_feed(current_user, s.images,
                                       config.seen_retention_days)
        IN  /\ selection' = Called(cursor, s, r.ok)
            /\ feed_seen' = r.rows
            /\ UNCHANGED <<catalog, config, liked_ids, following_ids, current_user,
                           now, pc, local>>
            /\ UNCHANGED storeVars

\* The client pages on: it sends the next_cursor of the last response.
Feed == \E cursor \in Cursors : Request(cursor)

\* A day passes; a request takes far less, so none is in flight.
Tick ==
    /\ now < MaxNow
    /\ \A w \in Workers : pc[w] = "idle"
    /\ now' = now + 1
    /\ UNCHANGED <<catalog, feed_seen, config, liked_ids, following_ids,
                   current_user, selection, pc, local>>
    /\ UNCHANGED storeVars

Next == Feed

Spec == Init /\ [][Next]_vars

\* ---------------------------------------------------------------- seen-tracking off
\* A signed-in viewer on a deployment with FEED_SEEN_ENABLED off: the feed pages
\* by the cursor alone.
InitNoSeen ==
    /\ catalog \in Catalogs
    /\ config \in {[c EXCEPT !.seen_enabled = FALSE] : c \in Configs}
    /\ liked_ids \in {l \in SUBSET (1..Len(catalog)) : Cardinality(l) <= MaxLiked}
    /\ following_ids \in SUBSET FollowedUploaders
    /\ current_user = 1
    /\ feed_seen = {}
    /\ now = 0
    /\ selection = NoSelection
    /\ pc = [w \in Workers |-> "idle"]
    /\ local = [w \in Workers |-> NoLocal]
    /\ signatures = [id \in 1..Len(catalog) |-> NoSignature]
    /\ files = NoFiles
    /\ response = NoResponse
    /\ blend = NoBlend

SpecNoSeen == InitNoSeen /\ [][Next]_vars

\* ---------------------------------------------------------------- paging to the end
\* A signed-in viewer with seen-tracking on pages through the feed: the first
\* request carries no cursor, each further one the next_cursor of the last
\* response, and the client stops at a response without next_cursor.  The
\* viewer may have been served images on earlier visits.
SeenBefore(ids) == {[user_id |-> 1, image_id |-> id, seen_at |-> 0] : id \in ids}

InitPaging ==
    /\ catalog \in {c \in Catalogs : Len(c) <= 2}
    /\ config \in {c \in Configs : /\ c.seen_enabled
                                    /\ c.candidate_multiplier = 1
                                    /\ c.max_consecutive = 0}
    /\ liked_ids \in {l \in SUBSET (1..Len(catalog)) : Cardinality(l) <= MaxLiked}
    /\ following_ids \in SUBSET FollowedUploaders
    /\ current_user = 1
    /\ feed_seen \in {SeenBefore(ids) : ids \in SUBSET (1..Len(catalog))}
    /\ now = 0
    /\ selection = NoSelection
    /\ pc = [w \in Workers |-> "idle"]
    /\ local = [w \in Workers |-> NoLocal]
    /\ signatures = [id \in 1..Len(catalog) |-> NoSignature]
    /\ files = NoFiles
    /\ response = NoResponse
    /\ blend = NoBlend

FollowCursor ==
    /\ selection.called => selection.next_cursor # EMPTY
    /\ Feed

NextPaging == FollowCursor

\* the client sends its next request as long as it has one to send
SpecPaging == InitPaging /\ [][NextPaging]_vars /\ WF_vars(FollowCursor)

\* ---------------------------------------------------------------- any cursor
\* The cursor is a query parameter: a client can send any string, a stale
\* bookmark or a corrupted one included.
CursorInputs ==
    {EMPTY, RANDOM, SEEN,
     <<"p", "=", "T", "1", "_", "2", "|", "g", "=", "r", "a", "n", "d", "o", "m">>,
     <<"p", "=", "T", "2", "_", "1", "|", "g", "=">>,
     <<"p", "=", "|", "g", "=", "r", "a", "n", "d", "o", "m">>,
     <<"p", "=", "x", "|", "g", "=", "r", "a", "n", "d", "o", "m">>,
     <<"p", "=", "T", "2", "_", "x", "|", "g", "=">>,
     <<"p", "=", "x", "_", "1", "|", "g", "=", "y">>,
     <<"p", "=", "T", "1", "_", "1", "_", "1", "|", "g", "=">>,
     <<"T", "1", "_", "1">>,
     <<"|">>}

CursorConfigs ==
    [per_page : 1..MaxPerPage, fresh_days : {0}, prioritized_pct : PctValues,
     candidate_multiplier : {1}, max_per_uploader : {0}, max_consecutive : {0},
     seen_enabled : BOOLEAN, seen_retention_days : {0}, seen_max_ids : {MaxImages}]

InitCursor ==
    /\ catalog \in {c \in Catalogs : Len(c) <= 2}
    /\ config \in CursorConfigs
    /\ liked_ids \in {l \in SUBSET (1..Len(catalog)) : Cardinality(l) <= MaxLiked}
    /\ following_ids \in SUBSET FollowedUploaders
    /\ current_user \in Viewers
    /\ current_user = 0 => (liked_ids = {} /\ following_ids = {})
    /\ feed_seen = {}
    /\ now = 0
    /\ selection = NoSelection
    /\ pc = [w \in Workers |-> "idle"]
    /\ local = [w \in Workers |-> NoLocal]
    /\ signatures = [id \in 1..Len(catalog) |-> NoSignature]
    /\ files = NoFiles
    /\ response = NoResponse
    /\ blend = NoBlend

\* GET /api/feed with a cursor the client made up or kept
FeedAnyCursor == \E cursor \in CursorInputs : Request(cursor)

NextCursor ==
    \/ Feed
    \/ FeedAnyCursor

SpecCursor == InitCursor /\ [][NextCursor]_vars

\* ---------------------------------------------------------------- workers
\* Two workers serve GET /api/feed for the same user.  A request reads and
\* writes the database in three steps: build_feed_selection, the SELECT of
\* _persist_seen_ids, and its INSERT, DELETE and COMMIT.

SeenConfigs ==
    {c \in [per_page : 1..MaxPerPage, fresh_days : {0}, prioritized_pct : {0},
            candidate_multiplier : {1}, max_per_uploader : {0}, max_consecutive : {0},
            seen_enabled : BOOLEAN, seen_retention_days : 0..MaxRetention,
            seen_max_ids : {1, MaxImages}] : TRUE}

InitSeen ==
    /\ catalog \in {c \in Catalogs :
                        /\ Len(c) <= 2
                        /\ \A i \in 1..Len(c) : c[i] = [user_id |-> 1, observed_at |-> 1]}
    /\ config \in SeenConfigs
    /\ liked_ids = {}
    /\ following_ids = {}
    /\ current_user \in Viewers
    /\ feed_seen = {}
    /\ now = 0
    /\ selection = NoSelection
    /\ pc = [w \in Workers |-> "idle"]
    /\ local = [w \in Workers |-> NoLocal]
    /\ signatures = [id \in 1..Len(catalog) |-> NoSignature]
    /\ files = NoFiles
    /\ response = NoResponse
    /\ blend = NoBlend

Build(w) ==
    /\ pc[w] = "idle"
    /\ \E s \in Select(EMPTY) :
          /\ local' = [local EXCEPT ![w] = [images |-> s.images, existing |-> {}]]
          /\ pc' = [pc EXCEPT ![w] = "built"]
    /\ UNCHANGED <<catalog, feed_seen, config, liked_ids, following_ids,
                   current_user, now, selection>>
    /\ UNCHANGED storeVars

\* persist_seen_for_feed up to the SELECT of the existing rows
ReadSeen(w) ==
    /\ pc[w] = "built"
    /\ IF current_user = 0 \/ local[w].images = <<>>
          THEN /\ pc' = [pc EXCEPT ![w] = "done"]
               /\ UNCHANGED local
       ELSE /\ pc' = [pc EXCEPT ![w] = "read"]
            /\ local' = [local EXCEPT
                           ![w].existing =
                               SelectExisting(current_user, local[w].images)]
    /\ UNCHANGED <<catalog, feed_seen, config, liked_ids, following_ids,
                   current_user, now, selection>>
    /\ UNCHANGED storeVars

\* the rest of _persist_seen_ids
WriteSeen(w) ==
    /\ pc[w] = "read"
    /\ LET r == _persist_seen_ids(current_user, local[w].images,
                                  config.seen_retention_days, local[w].existing)
       IN  /\ feed_seen' = r.rows
           /\ pc' = [pc EXCEPT ![w] = IF r.ok THEN "done" ELSE "failed"]
    /\ UNCHANGED <<catalog, config, liked_ids, following_ids, current_user, now,
                   selection, local>>
    /\ UNCHANGED storeVars

\* The response is sent (200, or 500 after an exception); the worker is free.
Respond(w) ==
    /\ pc[w] \in {"done", "failed"}
    /\ pc' = [pc EXCEPT ![w] = "idle"]
    /\ local' = [local EXCEPT ![w] = NoLocal]
    /\ UNCHANGED <<catalog, feed_seen, config, liked_ids, following_ids,
                   current_user, now, selection>>
    /\ UNCHANGED storeVars

NextSeen ==
    \/ \E w \in Workers : Build(w)
    \/ \E w \in Workers : ReadSeen(w)
    \/ \E w \in Workers : WriteSeen(w)
    \/ \E w \in Workers : Respond(w)
    \/ Tick

SpecSeen == InitSeen /\ [][NextSeen]_vars

\* ---------------------------------------------------------------- store handlers
\* NULL when the file cannot be read
read_watermark_comment(path) ==
    IF ~files[path].exists THEN NULL
    ELSE read_watermark_comment_bytes(files[path].data)

VerifyConfigs ==
    [VERIFY_MAX_BYTES : {30, 100}, VERIFY_SIMILARITY_ENABLED : BOOLEAN,
     VERIFY_PHASH_MAX_DISTANCE : {1}, VERIFY_DHASH_MAX_DISTANCE : {1}]

\* a row and its file from before the perceptual hashes were added to the
\* table (signature_phash and signature_dhash are nullable)
LegacyData == JpegSave([p |-> 0, d |-> 0], <<>>)

LegacySignature ==
    [file_path |-> 1, watermark_hash |-> NULL, signature_sha256 |-> sha256(LegacyData),
     signature_phash |-> NULL, signature_dhash |-> NULL]

InitVerify ==
    /\ config \in VerifyConfigs
    /\ \/ /\ catalog = <<>>
          /\ signatures = <<>>
          /\ files = NoFiles
       \/ /\ catalog = <<[user_id |-> 1, observed_at |-> 1]>>
          /\ signatures = <<LegacySignature>>
          /\ files = [NoFiles EXCEPT ![1] = [exists |-> TRUE, data |-> LegacyData,
                                             writer |-> 1]]
    /\ liked_ids = {}
    /\ following_ids = {}
    /\ current_user = 1
    /\ feed_seen = {}
    /\ now = 1
    /\ selection = NoSelection
    /\ pc = [w \in Workers |-> "idle"]
    /\ local = [w \in Workers |-> NoLocal]
    /\ response = NoResponse
    /\ blend = NoBlend

feedVars == <<feed_seen, liked_ids, following_ids, current_user, now, selection, pc,
              local, blend>>

\* the streams a client uploads: a JPEG, or bytes that are no image (what the
\* stored picture looks like after the resize and the overlay is the input
\* "stored" of process_image_upload)
UploadInputs == {JpegSave([p |-> 0, d |-> 0], <<>>), <<0>>}

\* POST /upload: process_image_upload, then the Image row.  A ValueError is
\* flashed and the form shown again; any other exception is a 500.
Upload ==
    /\ Len(catalog) < MaxUploads
    /\ \E allowed \in BOOLEAN, upload \in UploadInputs, identifier \in Paths,
          watermark_hash \in WatermarkIds, stored \in Pictures :
          LET r == process_image_upload(allowed, upload, identifier, watermark_hash,
                                        stored)
              id == Len(catalog) + 1
          IN  IF r.raised # ""
                 THEN /\ response' =
                            [NoResponse EXCEPT
                                !.kind = "upload",
                                !.status = IF r.raised = "ValueError" THEN 200
                                           ELSE 500]
                      /\ UNCHANGED <<catalog, signatures, files>>
              ELSE /\ files' = [files EXCEPT ![r.file_path] =
                                   [exists |-> TRUE, data |-> r.data, writer |-> id]]
                   /\ catalog' = Append(catalog, [user_id |-> current_user,
                                                  observed_at |-> now])
                   /\ signatures' = Append(signatures,
                         [file_path |-> r.file_path,
                          watermark_hash |-> r.watermark_hash,
                          signature_sha256 |-> r.signature_sha256,
                          signature_phash |-> r.signature_phash,
                          signature_dhash |-> r.signature_dhash])
                   /\ response' = [NoResponse EXCEPT !.kind = "upload",
                                                     !.status = 302,
                                                     !.image_id = id]
    /\ UNCHANGED <<config, feedVars>>

\* GET /api/images/<id>/verify
VerifyImage ==
    /\ \E image_id \in 1..(Len(signatures) + 1) : response' = verify_image(image_id)
    /\ UNCHANGED <<catalog, signatures, files, config, feedVars>>

\* bytes that are no image, n of them
Garbage(n) == [k \in 1..n |-> 0]

\* what a client can post to verify-file: a stored file, a JPEG of some
\* picture without a comment, bytes that are no image (a few, or as many as a
\* stored file has)
Probes ==
    {files[path].data : path \in {path \in Paths : files[path].exists}}
        \cup {JpegSave(c, <<>>) : c \in Pictures}
        \cup {Garbage(1), Garbage(Len(JpegSave([p |-> 0, d |-> 0], SKYFRAME_MARKER)))}

\* POST /api/verify-file
VerifyFile ==
    /\ \E has_file \in BOOLEAN, data \in Probes :
          \E first \in (IF ExactMatches(sha256(data)) = {} THEN {0}
                        ELSE ExactMatches(sha256(data))),
             scan \in ScanOrders(Candidates) :
                response' = verify_file(has_file, data, first, scan)
    /\ UNCHANGED <<catalog, signatures, files, config, feedVars>>

\* read_watermark_comment on the file of an image
ReadWatermark ==
    /\ \E image_id \in 1..Len(signatures) :
          response' = [NoResponse EXCEPT
                          !.kind = "read_watermark", !.image_id = image_id,
                          !.value = read_watermark_comment(
                                        signatures[image_id].file_path)]
    /\ UNCHANGED <<catalog, signatures, files, config, feedVars>>

NextVerify ==
    \/ Upload
    \/ VerifyImage
    \/ VerifyFile
    \/ ReadWatermark

SpecVerify == InitVerify /\ [][NextVerify]_vars

\* ---------------------------------------------------------------- backfill
\* The signature _build_watermark_payload returns during a backfill run: one
\* owner and one second give one signature.
BackfillWatermarkIds == {<<98, 50>>}

\* What the picture can look like after apply_watermark_to_file has drawn the
\* overlay and encoded it again: as before, or with other fingerprints.
Repainted(image) == {image, [p |-> image.p, d |-> IF image.d = 0 THEN 1 ELSE 0]}

\* apply_watermark_to_file: the bytes it leaves at the path
apply_watermark_to_file(data, watermark_hash, repainted) ==
    JpegSave(repainted, SKYFRAME_MARKER \o watermark_hash)

\* Mutant: the hashes are those of the file before the watermark is applied.
BackfillImage_HashBeforeRewrite(row, file, dry_run, force, skip_watermark, watermark_hash, keep) ==
    LET apply_watermark == ~skip_watermark /\ (force \/ row.watermark_hash = NULL)
        picture == ImageOpen(file.data).image
        repainted == IF keep THEN picture
                     ELSE CHOOSE c \in Repainted(picture) : c # picture
        written == IF apply_watermark
                      THEN [exists |-> TRUE, writer |-> 0,
                            data |-> apply_watermark_to_file(file.data, watermark_hash,
                                                             repainted)]
                   ELSE file
        rehash == \/ force
                  \/ row.signature_sha256 = NULL
                  \/ row.signature_phash = NULL
                  \/ row.signature_dhash = NULL
                  \/ apply_watermark
        hashes == perceptual_hashes_for_bytes(file.data)
        updated == [row EXCEPT
                       !.watermark_hash = IF apply_watermark THEN watermark_hash ELSE @,
                       !.signature_sha256 = IF rehash THEN sha256(file.data) ELSE @,
                       !.signature_phash = IF rehash THEN hashes.phash ELSE @,
                       !.signature_dhash = IF rehash THEN hashes.dhash ELSE @]
    IN  IF ~file.exists THEN [row |-> row, file |-> file]
        ELSE [row |-> IF dry_run THEN row ELSE updated, file |-> written]

\* The body of main's loop for one image whose row and file are given; keep
\* says whether the picture keeps its fingerprints when it is encoded again.
BackfillImage(row, file, dry_run, force, skip_watermark, watermark_hash, keep) ==
    LET apply_watermark == ~skip_watermark /\ (force \/ row.watermark_hash = NULL)
        picture == ImageOpen(file.data).image
        repainted == IF keep THEN picture
                     ELSE CHOOSE c \in Repainted(picture) : c # picture
        written == IF apply_watermark
                      THEN [exists |-> TRUE, writer |-> 0,
                            data |-> apply_watermark_to_file(file.data, watermark_hash,
                                                             repainted)]
                   ELSE file
        rehash == \/ force
                  \/ row.signature_sha256 = NULL
                  \/ row.signature_phash = NULL
                  \/ row.signature_dhash = NULL
                  \/ apply_watermark
        hashes == perceptual_hashes_for_bytes(written.data)
        updated == [row EXCEPT
                       !.watermark_hash = IF apply_watermark THEN watermark_hash ELSE @,
                       !.signature_sha256 = IF rehash THEN sha256(written.data) ELSE @,
                       !.signature_phash = IF rehash THEN hashes.phash ELSE @,
                       !.signature_dhash = IF rehash THEN hashes.dhash ELSE @]
    IN  IF ~file.exists THEN [row |-> row, file |-> file]
        ELSE [row |-> IF dry_run THEN row ELSE updated, file |-> written]

\* main's loop from image id on, over the rows in id order; store is the rows
\* and the files so far.  limit = 0 is no limit.
RECURSIVE BackfillFrom(_, _, _, _, _, _, _, _)
BackfillFrom(id, store, dry_run, force, skip_watermark, limit, watermark_hash, keep) ==
    IF id > Len(store.signatures) \/ (limit # 0 /\ id - 1 >= limit) THEN store
    ELSE LET path == store.signatures[id].file_path
             done == BackfillImage(store.signatures[id], store.files[path], dry_run,
                                   force, skip_watermark, watermark_hash, keep[id])
         IN  BackfillFrom(id + 1,
                          [signatures |-> [store.signatures EXCEPT ![id] = done.row],
                           files |-> [store.files EXCEPT ![path] = done.file]],
                          dry_run, force, skip_watermark, limit, watermark_hash, keep)

\* the rows the backfill finds: without signatures, with a content hash only,
\* or as an upload leaves them
BackfillRows(path) ==
    {[NoSignature EXCEPT !.file_path = path],
     [LegacySignature EXCEPT !.file_path = path]}
        \cup {[file_path |-> path, watermark_hash |-> r.watermark_hash,
                signature_sha256 |-> r.signature_sha256,
                signature_phash |-> r.signature_phash,
                signature_dhash |-> r.signature_dhash] :
                  r \in {process_image_upload(TRUE, LegacyData, path, w, c) :
                            w \in WatermarkIds, c \in {[p |-> 0, d |-> 0], [p |-> 1, d |-> 3]}}}

\* the file of a row: the one the upload wrote, an unmarked one, or none
BackfillFile(row) ==
    IF row.watermark_hash = NULL
       THEN {[exists |-> TRUE, data |-> LegacyData, writer |-> 0],
             [exists |-> FALSE, data |-> <<>>, writer |-> 0]}
    ELSE {[exists |-> TRUE, writer |-> 0,
           data |-> JpegSave([p |-> HexToInt(row.signature_phash),
                              d |-> HexToInt(row.signature_dhash)],
                             SKYFRAME_MARKER \o row.watermark_hash)]}

InitBackfill ==
    /\ config \in {c \in VerifyConfigs : c.VERIFY_MAX_BYTES = 100 /\ c.VERIFY_SIMILARITY_ENABLED}
    /\ catalog \in {c \in Catalogs : Len(c) \in 1..MaxPaths
                                        /\ \A i \in 1..Len(c) : c[i] = [user_id |-> 1, observed_at |-> 1]}
    /\ signatures \in [1..Len(catalog) -> UNION {BackfillRows(path) : path \in Paths}]
    /\ \A id \in 1..Len(catalog) : signatures[id].file_path = id
    /\ files \in [Paths -> UNION {BackfillFile(signatures[id]) : id \in 1..Len(catalog)}
                              \cup {NoFiles[1]}]
    /\ \A path \in Paths :
          IF path \in 1..Len(catalog) THEN files[path] \in BackfillFile(signatures[path])
          ELSE files[path] = NoFiles[1]
    /\ liked_ids = {}
    /\ following_ids = {}
    /\ current_user = 0
    /\ feed_seen = {}
    /\ now = 1
    /\ selection = NoSelection
    /\ pc = [w \in Workers |-> "idle"]
    /\ local = [w \in Workers |-> NoLocal]
    /\ response = NoResponse
    /\ blend = NoBlend

\* one run of skyframe_backfill_signatures with its four arguments
Backfill(dry_run, force, skip_watermark, limit) ==
    /\ \E watermark_hash \in BackfillWatermarkIds, keep \in [1..Len(signatures) -> BOOLEAN] :
          LET after == BackfillFrom(1, [signatures |-> signatures, files |-> files],
                                    dry_run, force, skip_watermark, limit,
                                    watermark_hash, keep)
          IN  /\ signatures' = after.signatures
              /\ files' = after.files
    /\ response' = [NoResponse EXCEPT
                        !.kind = "backfill",
                        !.value = <<dry_run, force, skip_watermark, limit>>]
    /\ UNCHANGED <<catalog, config, feedVars>>

NextBackfill ==
    \/ \E dry_run \in BOOLEAN, force \in BOOLEAN, skip_watermark \in BOOLEAN,
           limit \in 0..MaxBackfillLimit :
          Backfill(dry_run, force, skip_watermark, limit)
    \/ VerifyImage

SpecBackfill == InitBackfill /\ [][NextBackfill]_vars

\* ---------------------------------------------------------------- my_feed
\* Image.created_at, in the units of observed_at
CreatedTimes == {1, 2}

\* Image.query.filter_by(user_id=current_user.id)
OwnImages == {id \in 1..Len(catalog) : catalog[id].user_id = current_user}

\* .order_by(Image.created_at.desc(), Image.id.desc())
RECURSIVE OrderByCreatedDesc(_)
OrderByCreatedDesc(S) ==
    IF S = {} THEN <<>>
    ELSE LET first == CHOOSE x \in S : \A y \in S :
                          \/ catalog[x].created_at > catalog[y].created_at
                          \/ (catalog[x].created_at = catalog[y].created_at /\ x >= y)
         IN  <<first>> \o OrderByCreatedDesc(S \ {first})

\* Mutant: the filter of the cursor compares created_at only.
my_feed_NoTieBreak(cursor) ==
    LET per_page == config.per_page
        parts == Split(cursor, "_")
        parsed == Len(parts) = 2 /\ IsIsoStr(parts[1]) /\ IsIntStr(parts[2])
        cursor_point == fromisoformat(parts[1])
        cursor_image_id == StrToInt(parts[2])
        rows == IF cursor = EMPTY THEN OwnImages
                ELSE {id \in OwnImages : catalog[id].created_at < cursor_point}
        ordered == Limit(OrderByCreatedDesc(rows), per_page + 1)
        images == Limit(ordered, per_page)
        cursor_target == images[Len(images)]
    IN  IF cursor # EMPTY /\ ~parsed
           THEN [status |-> 400, images |-> <<>>, next_cursor |-> EMPTY]
        ELSE IF Len(ordered) > per_page /\ images # <<>>
           THEN [status |-> 200, images |-> images,
                 next_cursor |-> isoformat(catalog[cursor_target].created_at)
                                 \o <<"_">> \o IntToStr(cursor_target)]
        ELSE [status |-> 200, images |-> images, next_cursor |-> EMPTY]

\* my_feed: what GET /api/my-feed?cursor=... answers
my_feed(cursor) ==
    LET per_page == config.per_page
        parts == Split(cursor, "_")
        parsed == Len(parts) = 2 /\ IsIsoStr(parts[1]) /\ IsIntStr(parts[2])
        cursor_point == fromisoformat(parts[1])
        cursor_image_id == StrToInt(parts[2])
        rows == IF cursor = EMPTY THEN OwnImages
                ELSE {id \in OwnImages :
                         \/ catalog[id].created_at < cursor_point
                         \/ (catalog[id].created_at = cursor_point
                               /\ id < cursor_image_id)}
        ordered == Limit(OrderByCreatedDesc(rows), per_page + 1)
        images == Limit(ordered, per_page)
        cursor_target == images[Len(images)]
    IN  IF cursor # EMPTY /\ ~parsed
           THEN [status |-> 400, images |-> <<>>, next_cursor |-> EMPTY]
        ELSE IF Len(ordered) > per_page /\ images # <<>>
           THEN [status |-> 200, images |-> images,
                 next_cursor |-> isoformat(catalog[cursor_target].created_at)
                                 \o <<"_">> \o IntToStr(cursor_target)]
        ELSE [status |-> 200, images |-> images, next_cursor |-> EMPTY]

\* the Image table with created_at, and a signed-in user (login_required)
InitMyFeed ==
    /\ catalog \in UNION {[1..n -> [user_id : Uploaders, observed_at : {1},
                                     created_at : CreatedTimes]] : n \in 0..MaxImages}
    /\ config \in {c \in Configs : /\ c.prioritized_pct = 0
                                    /\ c.candidate_multiplier = 1
                                    /\ c.max_per_uploader = 0
                                    /\ c.max_consecutive = 0}
    /\ liked_ids = {}
    /\ following_ids = {}
    /\ current_user = 1
    /\ feed_seen = {}
    /\ now = 0
    /\ selection = NoSelection
    /\ pc = [w \in Workers |-> "idle"]
    /\ local = [w \in Workers |-> NoLocal]
    /\ signatures = [id \in 1..Len(catalog) |-> NoSignature]
    /\ files = NoFiles
    /\ response = NoResponse
    /\ blend = NoBlend

\* GET /api/my-feed with the next_cursor of the last response (none on the
\* first request and after the last page); response.value is what the client
\* has received since its request without cursor.
MyFeed(cursor) ==
    LET r == my_feed(cursor)
    IN  /\ selection' = [NoSelection EXCEPT !.called = TRUE, !.cursor = cursor,
                                            !.images = r.images,
                                            !.next_cursor = r.next_cursor,
                                            !.has_more = (r.next_cursor # EMPTY),
                                            !.status = r.status]
        /\ response' = [NoResponse EXCEPT
                            !.kind = "my_feed", !.status = r.status,
                            !.value = IF cursor = EMPTY THEN r.images
                                      ELSE response.value \o r.images]
        /\ UNCHANGED <<catalog, feed_seen, config, liked_ids, following_ids,
                       current_user, now, pc, local, signatures, files, blend>>

NextMyFeed == \E cursor \in Cursors : MyFeed(cursor)

SpecMyFeed == InitMyFeed /\ [][NextMyFeed]_vars

\* ---------------------------------------------------------------- the seen ledger
\* the viewers with rows in the ledger
LedgerUsers == {1, 2}

\* the tables FeedSeen can hold: at most one row per viewer and image
\* (uq_feed_seen_user_image), none newer than now
Ledgers ==
    {T \in SUBSET [user_id : LedgerUsers, image_id : ImageIds, seen_at : 0..now] :
        \A a \in T, b \in T :
            (a.user_id = b.user_id /\ a.image_id = b.image_id) => a = b}

\* the pages persist_seen_for_feed is given: no image twice
Pages == UNION {OrderByRandomLimit(ImageIds, n) : n \in 0..MaxPerPage}

InitLedger ==
    /\ catalog = <<[user_id |-> 1, observed_at |-> 1], [user_id |-> 1, observed_at |-> 1]>>
    /\ config \in {c \in SeenConfigs : c.per_page = MaxPerPage /\ c.seen_enabled
                                          /\ c.seen_max_ids = MaxImages}
    /\ liked_ids = {}
    /\ following_ids = {}
    /\ current_user \in Viewers
    /\ now \in 1..MaxNow
    /\ feed_seen \in Ledgers
    /\ selection = NoSelection
    /\ pc = [w \in Workers |-> "idle"]
    /\ local = [w \in Workers |-> NoLocal]
    /\ signatures = [id \in 1..Len(catalog) |-> NoSignature]
    /\ files = NoFiles
    /\ response = NoResponse
    /\ blend = NoBlend

\* persist_seen_for_feed(user_id=current_user, images, retention_days), alone
Persist(images) ==
    /\ LET r == persist_seen_for_feed(current_user, images, config.seen_retention_days)
       IN  feed_seen' = r.rows
    /\ local' = [local EXCEPT ![1].images = images]
    /\ UNCHANGED <<catalog, config, liked_ids, following_ids, current_user, now,
                   selection, pc>>
    /\ UNCHANGED storeVars

NextLedger == \E images \in Pages : Persist(images)

SpecLedger == InitLedger /\ [][NextLedger]_vars

\* ---------------------------------------------------------------- the blend loop
\* The arguments _blend_feed gets from build_feed_selection: the prioritized
\* candidates newest first, the discovery candidates in a random order, the two
\* pools disjoint.
BlendPools ==
    UNION {{[prioritized |-> OrderByObservedDesc(S), global_new |-> g] :
               g \in UNION {OrderByRandomLimit(ImageIds \ S, n) : n \in 0..MaxImages}} :
           S \in SUBSET ImageIds}

\* prioritized_target, as build_feed_selection computes it
BlendTarget == PyRound100(config.per_page * Max(0, Min(config.prioritized_pct, 100)))

InitBlend ==
    /\ catalog \in Catalogs
    /\ config \in {c \in Configs : c.candidate_multiplier = 1}
    /\ liked_ids = {}
    /\ following_ids = {}
    /\ current_user = 0
    /\ feed_seen = {}
    /\ now = 0
    /\ selection = NoSelection
    /\ pc = [w \in Workers |-> "idle"]
    /\ local = [w \in Workers |-> NoLocal]
    /\ signatures = [id \in 1..Len(catalog) |-> NoSignature]
    /\ files = NoFiles
    /\ response = NoResponse
    /\ \E pools \in BlendPools :
          blend = [called |-> TRUE, returned |-> FALSE,
                   b |-> BlendInit(pools.prioritized, pools.global_new)]

\* One pass of the while loop of _blend_feed, or its return when the loop
\* condition fails or the pass ends in break.
BlendIteration ==
    /\ blend.called
    /\ ~blend.returned
    /\ LET nb == BlendStep(blend.b, config.per_page, BlendTarget,
                            config.max_per_uploader, config.max_consecutive)
       IN  blend' = IF nb = blend.b THEN [blend EXCEPT !.returned = TRUE]
                    ELSE [blend EXCEPT !.b = nb]
    /\ UNCHANGED <<catalog, config, feed_seen, liked_ids, following_ids, current_user,
                   now, selection, pc, local, signatures, files, response>>

NextBlend == BlendIteration

SpecBlend == InitBlend /\ [][NextBlend]_vars

\* ---------------------------------------------------------------- fingerprints
\* The characters of a fingerprint: f"{v:016x}" writes lower case, int(s, 16)
\* reads both cases.
FingerprintChars == {HexLower[i] : i \in 1..16} \cup {65, 70}

\* the fingerprints, at the model's width
Fingerprints == [1..HammingHexLen -> FingerprintChars]

\* None is written -1
DistanceOrNone(left, right) ==
    IF _hamming_distance(left, right).ok THEN _hamming_distance(left, right).d ELSE -1

InitHamming ==
    /\ config \in {c \in VerifyConfigs : c.VERIFY_MAX_BYTES = 100 /\ c.VERIFY_SIMILARITY_ENABLED}
    /\ catalog = <<>>
    /\ signatures = <<>>
    /\ files = NoFiles
    /\ liked_ids = {}
    /\ following_ids = {}
    /\ current_user = 0
    /\ feed_seen = {}
    /\ now = 1
    /\ selection = NoSelection
    /\ pc = [w \in Workers |-> "idle"]
    /\ local = [w \in Workers |-> NoLocal]
    /\ \E left \in Fingerprints, right \in Fingerprints :
          response = [NoResponse EXCEPT !.kind = "hamming_args",
                                        !.probe = <<left, right>>]
    /\ blend = NoBlend

\* _hamming_distance on the pair of fingerprints, both ways round and on the
\* first with itself
Hamming(left, right) ==
    /\ response.kind = "hamming_args"
    /\ response' = [NoResponse EXCEPT
                        !.kind = "hamming",
                        !.probe = <<left, right>>,
                        !.value = <<DistanceOrNone(left, right),
                                    DistanceOrNone(right, left),
                                    DistanceOrNone(left, left)>>]
    /\ UNCHANGED <<catalog, signatures, files, config, feedVars>>

NextHamming == Hamming(response.probe[1], response.probe[2])

SpecHamming == InitHamming /\ [][NextHamming]_vars

\* ---------------------------------------------------------------- properties
UseSeen == config.seen_enabled /\ current_user # 0

Uploader(id) == catalog[id].user_id

PageIds == SeqToSet(selection.images)

\* how many images of the page the uploader u has
CountOf(u) == Cardinality({k \in 1..Len(selection.images) : Uploader(selection.images[k]) = u})

\* some m + 1 adjacent images of the page have the same uploader
HasRunLongerThan(m) ==
    \E k \in 1..(Len(selection.images) - m) :
        \A j \in k..(k + m) : Uploader(selection.images[j]) = Uploader(selection.images[k])

\* The page came out of _blend_feed, not out of the random fallback.
FromBlend == selection.blended # <<>>

\* images the seen set loaded by the call does not exclude
Eligible == ImageIds \ selection.seen_ids

\* C1: a call of build_feed_selection returns at most per_page images, also
\* when the random fallback is used.
C1_PageSizeBound ==
    selection.called => Len(selection.images) <= config.per_page

\* C1 witness: a fallback page of per_page images from a larger catalog.
C1_Witness ==
    /\ selection.called
    /\ ~FromBlend
    /\ Len(selection.images) = config.per_page
    /\ Len(catalog) > config.per_page

\* C2 as claimed: with max_per_uploader = k > 0 no uploader has more than k
\* images in any returned page.
C2_PerUploaderCap_EveryPage ==
    (selection.called /\ config.max_per_uploader > 0)
        => \A u \in Uploaders : CountOf(u) <= config.max_per_uploader

\* C2 amended: with max_per_uploader = k > 0 no uploader has more than k images
\* in a page produced by the blend; the random fallback served when the blend
\* is empty is not capped.
C2_PerUploaderCap ==
    (selection.called /\ config.max_per_uploader > 0 /\ FromBlend)
        => \A u \in Uploaders : CountOf(u) <= config.max_per_uploader

\* C2 witness: the per-uploader cap alone kept a blended page short of per_page
\* although candidates were left.
C2_Witness ==
    /\ selection.called
    /\ config.max_per_uploader > 0
    /\ config.max_consecutive = 0
    /\ FromBlend
    /\ Len(selection.images) < config.per_page
    /\ selection.has_more
    /\ \E u \in Uploaders : CountOf(u) = config.max_per_uploader

\* C3 as claimed: with seen-tracking enabled and a known viewer, no image of
\* the loaded seen-id set is in the returned page.
C3_SeenExcluded_EveryPage ==
    (selection.called /\ UseSeen) => PageIds \cap selection.seen_ids = {}

\* C3 amended: with seen-tracking enabled and a known viewer, no image of the
\* loaded seen-id set is in a page produced by the blend; the random fallback
\* served when the blend is empty draws from the whole catalog, seen images
\* included.
C3_SeenExcluded ==
    (selection.called /\ UseSeen /\ FromBlend)
        => PageIds \cap selection.seen_ids = {}

\* C3 witness: a blended page served while some images were loaded as seen.
C3_Witness ==
    /\ selection.called
    /\ UseSeen
    /\ FromBlend
    /\ selection.seen_ids # {}

C8_NeverEmpty ==
    (selection.called /\ Len(catalog) >= 1) => selection.images # <<>>

\* C8 witness: every image was seen, the blend was empty and the fallback
\* filled the page.
C8_Witness ==
    /\ selection.called
    /\ UseSeen
    /\ selection.seen_ids = ImageIds
    /\ ~FromBlend
    /\ selection.images # <<>>

\* C9 as claimed: the page has exactly per_page images whenever at least
\* per_page images are not excluded by the seen set, whatever the caps are.
C9_FullPage_AnyCaps ==
    (selection.called /\ Cardinality(Eligible) >= config.per_page)
        => Len(selection.images) = config.per_page

\* C9 amended: with both uploader caps unconstrained (0) the page has exactly
\* per_page images whenever at least per_page images are not excluded by the
\* seen set, for every prioritized fraction and candidate multiplier.
C9_FullPage ==
    (selection.called /\ config.max_per_uploader = 0 /\ config.max_consecutive = 0
        /\ Cardinality(Eligible) >= config.per_page)
        => Len(selection.images) = config.per_page

\* C9 witness: without caps, a full page served while some images were excluded
\* as seen and both pools held candidates.
C9_Witness ==
    /\ selection.called
    /\ config.max_per_uploader = 0
    /\ config.max_consecutive = 0
    /\ selection.seen_ids # {}
    /\ Cardinality(Eligible) >= config.per_page
    /\ selection.prioritized_candidates # <<>>
    /\ selection.random_candidates # <<>>
    /\ Len(selection.images) = config.per_page

\* C10 as claimed: with max_consecutive = m > 0 no returned page has more than
\* m adjacent images of the same uploader.
C10_MaxConsecutive_EveryPage ==
    (selection.called /\ config.max_consecutive > 0)
        => ~HasRunLongerThan(config.max_consecutive)

\* C10 amended: with max_consecutive = m > 0 no page produced by the blend has
\* more than m adjacent images of the same uploader; the random fallback served
\* when the blend is empty is not capped.
C10_MaxConsecutive ==
    (selection.called /\ config.max_consecutive > 0 /\ FromBlend)
        => ~HasRunLongerThan(config.max_consecutive)

\* C10 witness: under the consecutive cap alone the blend passed over a
\* candidate of the last uploader and emitted a later one of its pool.
C10_Witness ==
    /\ selection.called
    /\ config.max_consecutive > 0
    /\ config.max_per_uploader = 0
    /\ FromBlend
    /\ \E j, k \in 1..Len(selection.random_candidates) :
          /\ j < k
          /\ selection.random_candidates[j] \notin PageIds
          /\ selection.random_candidates[k] \in PageIds

\* ---------------------------------------------------------------- seen ledger
\* the rows of the table t for the pair (user_id, image_id)
Entries(t, user_id, image_id) ==
    {row \in t : row.user_id = user_id /\ row.image_id = image_id}

\* The row is not older than the retention window (retention 0: no window).
WithinRetention(row) ==
    config.seen_retention_days > 0 => row.seen_at >= now - config.seen_retention_days

\* The worker w completes _persist_seen_ids in this step.
Persisted(w) == pc[w] = "read" /\ pc'[w] = "done"

\* C5: recording a (viewer, image) pair that has an entry within retention
\* leaves exactly that one entry, its seen_at unchanged.
C5_SeenIdempotent ==
    [][\A w \in Workers : Persisted(w) =>
          \A row \in feed_seen :
              (row.user_id = current_user
                  /\ row.image_id \in SeqToSet(local[w].images)
                  /\ WithinRetention(row))
                  => Entries(feed_seen', row.user_id, row.image_id) = {row}]_vars

\* C5 witness: a worker has recorded, at a later time, a page with an image
\* that already had an entry; the entry is the only one and keeps its seen_at.
C5_Witness ==
    \E w \in Workers :
        /\ pc[w] = "done"
        /\ current_user # 0
        /\ \E k \in 1..Len(local[w].images) :
              /\ local[w].images[k] \in local[w].existing
              /\ \E row \in feed_seen :
                    /\ Entries(feed_seen, current_user, local[w].images[k]) = {row}
                    /\ row.seen_at < now

\* C6: two interleaved requests of the same viewer both complete without an
\* error, and the ledger has exactly one entry per recorded (viewer, image).
C6_ConcurrentPersist ==
    /\ \A w \in Workers : pc[w] # "failed"
    /\ \A w \in Workers : pc[w] = "done" /\ current_user # 0 =>
          \A k \in 1..Len(local[w].images) :
              Cardinality(Entries(feed_seen, current_user, local[w].images[k])) <= 1

\* C7: when persist_seen_for_feed completes for a known viewer, the ledger has
\* an entry (viewer, i) for every image i of the page.
C7_PageRecorded ==
    [][\A w \in Workers :
          (pc[w] # "done" /\ pc'[w] = "done" /\ current_user # 0)
              => \A k \in 1..Len(local[w].images) :
                    Entries(feed_seen', current_user, local[w].images[k]) # {}]_vars

\* ---------------------------------------------------------------- blend order
\* prioritized_target of the last call
Target == PyRound100(config.per_page * Max(0, Min(config.prioritized_pct, 100)))

\* the image a is newer than the image b in the (observed_at, id) order
Newer(a, b) ==
    \/ catalog[a].observed_at > catalog[b].observed_at
    \/ catalog[a].observed_at = catalog[b].observed_at /\ a > b

NoCaps == config.max_per_uploader = 0 /\ config.max_consecutive = 0

\* C11: without caps, when the prioritized pool holds at least T candidates and
\* the discovery pool at least per_page - T, the first T items of the page are
\* the T newest prioritized candidates, newest first, and the other
\* per_page - T items come from the discovery pool.
C11_BlendOrder ==
    (selection.called /\ NoCaps
        /\ Len(selection.prioritized_candidates) >= Target
        /\ Len(selection.random_candidates) >= config.per_page - Target)
        => /\ Len(selection.images) = config.per_page
           /\ \A k \in 1..Target :
                 /\ selection.images[k] \in SeqToSet(selection.prioritized_candidates)
                 /\ \A j \in (k + 1)..Target :
                       Newer(selection.images[k], selection.images[j])
                 /\ \A c \in SeqToSet(selection.prioritized_candidates) :
                       c \in {selection.images[j] : j \in 1..Target}
                           \/ Newer(selection.images[k], c)
           /\ \A k \in (Target + 1)..config.per_page :
                 selection.images[k] \in SeqToSet(selection.random_candidates)

\* C11 witness: a page of one prioritized slot, taken by the newer of two
\* prioritized candidates, and one discovery slot.
C11_Witness ==
    /\ selection.called
    /\ NoCaps
    /\ Target = 1
    /\ config.per_page = 2
    /\ Len(selection.prioritized_candidates) = 2
    /\ selection.random_candidates # <<>>
    /\ Len(selection.images) = 2
    /\ selection.images[1] = selection.prioritized_candidates[1]
    /\ selection.images[2] \in SeqToSet(selection.random_candidates)

\* C12: no image id is twice in a returned page, and the discovery pool shares
\* no image with the prioritized candidates.
C12_NoDuplicateInPage ==
    selection.called
        => /\ \A j, k \in 1..Len(selection.images) :
                 selection.images[j] = selection.images[k] => j = k
           /\ SeqToSet(selection.prioritized_candidates)
                 \cap SeqToSet(selection.random_candidates) = {}

\* C12 witness: a page with an image of each pool, while an image of the
\* catalog was kept out of the discovery pool as a prioritized candidate.
C12_Witness ==
    /\ selection.called
    /\ Len(selection.images) = 2
    /\ selection.images[1] \in SeqToSet(selection.prioritized_candidates)
    /\ selection.images[2] \in SeqToSet(selection.random_candidates)
    /\ Len(selection.prioritized_candidates) = 2

\* ---------------------------------------------------------------- cursor claims
\* the prioritized sub-cursor of a cursor string
SortKeyOf(cursor) == parse_feed_cursor(cursor).prioritized

\* s is {ISO timestamp}_{integer id}
WellFormedSortKey(s) ==
    LET parts == Split(s, "_")
    IN  Len(parts) = 2 /\ IsIsoStr(parts[1]) /\ IsIntStr(parts[2])

\* s is p={sort key or nothing}|g={random or nothing}
IsWireFormat(s) ==
    LET parts == Split(s, "|")
    IN  /\ Len(parts) = 2
        /\ StartsWith(parts[1], <<"p", "=">>)
        /\ StartsWith(parts[2], <<"g", "=">>)
        /\ LET key == SubSeq(parts[1], 3, Len(parts[1]))
               marker == SubSeq(parts[2], 3, Len(parts[2]))
           IN  /\ key = EMPTY \/ WellFormedSortKey(key)
               /\ marker \in {EMPTY, RANDOM}

\* The cursor has a prioritized part that is not a sort key.
MalformedCursor(cursor) ==
    SortKeyOf(cursor) # EMPTY /\ ~WellFormedSortKey(SortKeyOf(cursor))

\* C13: on an empty catalog a call returns no image, an empty next_cursor and
\* has_more = FALSE, for any cursor and viewer.
C13_EmptyCatalog ==
    (selection.called /\ Len(catalog) = 0)
        => /\ selection.images = <<>>
           /\ selection.next_cursor = EMPTY
           /\ ~selection.has_more

\* C13 witness: a known viewer sent a cursor with both parts set to an empty
\* catalog.
C13_Witness ==
    /\ selection.called
    /\ Len(catalog) = 0
    /\ current_user # 0
    /\ SortKeyOf(selection.cursor) # EMPTY
    /\ parse_feed_cursor(selection.cursor).global_new # EMPTY
    /\ selection.images = <<>>

C15_BadCursorStartsOver ==
    (selection.called /\ ~WellFormedSortKey(SortKeyOf(selection.cursor)))
        => selection.prioritized_candidates =
              PrioritizedQuery(liked_ids, following_ids,
                               _fresh_cutoff(config.fresh_days), selection.seen_ids,
                               UseSeen, EMPTY,
                               Max(config.per_page * config.candidate_multiplier,
                                   config.per_page))

\* C15 witness: a cursor with a timestamp and an id that is no integer was sent
\* without seen-tracking, and the page has a prioritized image that is not
\* older than that timestamp.
C15_Witness ==
    /\ selection.called
    /\ ~UseSeen
    /\ MalformedCursor(selection.cursor)
    /\ LET parts == Split(SortKeyOf(selection.cursor), "_")
       IN  /\ Len(parts) = 2
           /\ IsIsoStr(parts[1])
           /\ \E k \in 1..Len(selection.prioritized_candidates) :
                 /\ catalog[selection.prioritized_candidates[k]].observed_at
                       >= fromisoformat(parts[1])
                 /\ selection.prioritized_candidates[k] \in PageIds

\* C16: a request with a malformed cursor is not answered 200 with a page: the
\* cursor-format error surfaces to the client.
C16_MalformedCursorSurfaces ==
    (selection.called /\ MalformedCursor(selection.cursor))
        => selection.status # 200

\* ---------------------------------------------------------------- verification
\* the stored images whose content hash is the digest of the bytes
StoredWithHashOf(data) ==
    {id \in 1..Len(signatures) : signatures[id].signature_sha256 = sha256(data)}

\* the answer is the exact match: valid, with the id of a stored image
AnswersExact == response.valid /\ response.image_id # 0

\* C17 as stated: for every decodable probe, verify_file answers valid = true
\* with an image id exactly when some stored image has the probe's SHA-256, and
\* the id is one of those images.
C17_ExactMatch_AnyProbe ==
    (response.kind = "verify_file" /\ ImageOpen(response.probe).ok)
        => /\ AnswersExact <=> StoredWithHashOf(response.probe) # {}
           /\ AnswersExact => response.image_id \in StoredWithHashOf(response.probe)

\* C17, amended: the same for a decodable probe of at most VERIFY_MAX_BYTES
\* bytes; a longer one is refused with 413 before any lookup.
C17_ExactMatch ==
    (/\ response.kind = "verify_file"
     /\ ImageOpen(response.probe).ok
     /\ Len(response.probe) <= config.VERIFY_MAX_BYTES)
        => /\ AnswersExact <=> StoredWithHashOf(response.probe) # {}
           /\ AnswersExact => response.image_id \in StoredWithHashOf(response.probe)

\* a probe identical in bytes to the second of two stored images with different
\* content is answered with that image
C17_Witness ==
    /\ response.kind = "verify_file"
    /\ AnswersExact
    /\ response.image_id = 2
    /\ StoredWithHashOf(response.probe) = {2}
    /\ signatures[1].signature_sha256 # NULL

\* the two distances of a stored image from the probe
DistancesOf(id, data) ==
    LET hashes == perceptual_hashes_for_bytes(data)
    IN  [phash |-> _hamming_distance(hashes.phash, signatures[id].signature_phash),
         dhash |-> _hamming_distance(hashes.dhash, signatures[id].signature_dhash)]

\* the stored images with both fingerprints within the configured distances
Qualifying(data) ==
    {id \in 1..Len(signatures) :
        /\ signatures[id].signature_phash # NULL
        /\ signatures[id].signature_dhash # NULL
        /\ DistancesOf(id, data).phash.ok
        /\ DistancesOf(id, data).dhash.ok
        /\ DistancesOf(id, data).phash.d <= config.VERIFY_PHASH_MAX_DISTANCE
        /\ DistancesOf(id, data).dhash.d <= config.VERIFY_DHASH_MAX_DISTANCE}

ScoreOf(id, data) == DistancesOf(id, data).phash.d + DistancesOf(id, data).dhash.d

\* where the candidates query returned the row
ScanPosition(id) == CHOOSE k \in 1..Len(response.scan) : response.scan[k] = id

\* verify_file found no exact match and went on to the similarity search
SimilaritySearched ==
    /\ response.kind = "verify_file"
    /\ response.status = 200
    /\ ~response.valid
    /\ config.VERIFY_SIMILARITY_ENABLED

\* C18: without an exact match and with similarity enabled, verify_file answers
\* similar = true exactly when some stored image with both fingerprints is
\* within both distances; the image it reports qualifies, has the least sum of
\* the two distances, and is the first such image in scan order; otherwise the
\* answer is valid = false, similar = false.
C18_SimilarBest ==
    SimilaritySearched =>
        /\ response.similar <=> Qualifying(response.probe) # {}
        /\ response.similar =>
              /\ response.image_id \in Qualifying(response.probe)
              /\ response.phash_distance
                    = DistancesOf(response.image_id, response.probe).phash.d
              /\ response.dhash_distance
                    = DistancesOf(response.image_id, response.probe).dhash.d
              /\ \A id \in Qualifying(response.probe) :
                    \/ ScoreOf(response.image_id, response.probe)
                          < ScoreOf(id, response.probe)
                    \/ /\ ScoreOf(response.image_id, response.probe)
                            = ScoreOf(id, response.probe)
                       /\ ScanPosition(response.image_id) <= ScanPosition(id)
        /\ ~response.similar => (~response.valid /\ response.image_id = 0)

\* two stored images qualify with the same non-zero sum and the one reported
\* is the one the query returned first, here the later-stored image
C18_Witness ==
    /\ SimilaritySearched
    /\ response.similar
    /\ response.image_id = 2
    /\ Qualifying(response.probe) = {1, 2}
    /\ ScoreOf(1, response.probe) = ScoreOf(2, response.probe)
    /\ ScoreOf(1, response.probe) > 0
    /\ response.scan = <<2, 1>>

\* the image's file is the one its upload wrote, not overwritten since
FileAsWritten(id) ==
    /\ id \in 1..Len(signatures)
    /\ signatures[id].watermark_hash # NULL
    /\ files[signatures[id].file_path].exists
    /\ files[signatures[id].file_path].writer = id

\* C19: read_watermark_comment_bytes applied to the bytes of the file that
\* process_image_upload wrote, whose comment is "SkyFrame " and the watermark
\* id, returns that watermark id.
C19_WatermarkRoundTrip ==
    (response.kind = "read_watermark" /\ FileAsWritten(response.image_id))
        => response.value = signatures[response.image_id].watermark_hash

\* C20: the signatures process_image_upload returns are those of the file it
\* has written: for every upload whose file was not modified afterwards the
\* stored signature_sha256 is the digest of the bytes at the image path and
\* the stored fingerprints are those of that file, and verify_image on such
\* an upload reports valid = true.
C20_HashOfPersistedFile ==
    /\ \A id \in 1..Len(signatures) :
          FileAsWritten(id) =>
              LET data == files[signatures[id].file_path].data
              IN  /\ signatures[id].signature_sha256 = sha256(data)
                  /\ signatures[id].signature_phash
                        = perceptual_hashes_for_bytes(data).phash
                  /\ signatures[id].signature_dhash
                        = perceptual_hashes_for_bytes(data).dhash
    /\ (response.kind = "verify_image" /\ FileAsWritten(response.image_id))
          => (response.status = 200 /\ response.valid)

\* verify_image on the second upload, unmodified, after a first upload under
\* another name: valid
C20_Witness ==
    /\ response.kind = "verify_image"
    /\ response.image_id = 2
    /\ FileAsWritten(2)
    /\ FileAsWritten(1)
    /\ response.valid
    /\ response.computed_hash = signatures[2].signature_sha256

\* ---------------------------------------------------------------- Hamming distance
\* bit b of the hex digit c
BitOfDigit(c, b) == (HexByteValue(c) \div (2 ^ b)) % 2

\* the positions (digit, bit) where two fingerprints differ
DifferingBits(x, y) ==
    {kb \in (1..Len(x)) \X (0..3) : BitOfDigit(x[kb[1]], kb[2]) # BitOfDigit(y[kb[1]], kb[2])}

\* C21: for fingerprints x and y of the same width, _hamming_distance(x, y) =
\* _hamming_distance(y, x), _hamming_distance(x, x) = 0, and the result is the
\* number of differing bits, between 0 and four times the width.
C21_HammingSymmetry ==
    response.kind = "hamming" =>
        LET x == response.probe[1]
            y == response.probe[2]
        IN  /\ response.value[1] = response.value[2]
            /\ response.value[3] = 0
            /\ response.value[1] = Cardinality(DifferingBits(x, y))
            /\ response.value[1] \in 0..(4 * Len(x))

\* two fingerprints that differ in every bit, one of them in upper case
C21_Witness ==
    /\ response.kind = "hamming"
    /\ response.probe = <<[k \in 1..HammingHexLen |-> 70], [k \in 1..HammingHexLen |-> 48]>>
    /\ response.value[1] = 4 * HammingHexLen

\* ---------------------------------------------------------------- invalid probes
\* a file was posted and its bytes are no image
UndecodableProbe ==
    /\ response.kind = "verify_file"
    /\ response.probe # <<>>
    /\ ~ImageOpen(response.probe).ok

\* the answer is the generic error, made before any query, without a verdict
AnswersInvalidImage ==
    /\ response.status = 400
    /\ response.error = "invalid image file"
    /\ response.queries = 0
    /\ ~response.valid
    /\ ~response.similar
    /\ response.image_id = 0

\* C22 as stated: verify_file on probe bytes that cannot be decoded answers
\* "invalid image file" before any catalog lookup and gives no verdict.
C22_InvalidImage_AnyProbe == UndecodableProbe => AnswersInvalidImage

\* C22, amended: the same for an undecodable probe in a request of at most
\* VERIFY_MAX_BYTES bytes; a longer one is answered 413 "file too large", also
\* before any lookup and without a verdict.
C22_InvalidImage ==
    UndecodableProbe =>
        IF Len(response.probe) <= config.VERIFY_MAX_BYTES THEN AnswersInvalidImage
        ELSE /\ response.status = 413
             /\ response.queries = 0
             /\ ~response.valid
             /\ ~response.similar

\* an undecodable probe while images are stored
C22_Witness ==
    /\ UndecodableProbe
    /\ AnswersInvalidImage
    /\ Len(signatures) = 2
    /\ Len(response.probe) > 1

\* ---------------------------------------------------------------- backfill runs
\* C23: a backfill run with --dry-run leaves every image file and every image
\* record as it was, whatever --force, --skip-watermark and --limit are.
C23_DryRunWritesNothing ==
    [][(response'.kind = "backfill" /\ response'.value[1])
          => (files' = files /\ signatures' = signatures)]_vars

\* the watermark id in the comment of the file, as written
CommentIdOf(data) ==
    LET comment == ImageOpen(data).comment
    IN  IF Len(comment) > Len(SKYFRAME_MARKER)
           THEN SubSeq(comment, Len(SKYFRAME_MARKER) + 1, Len(comment))
        ELSE NULL

\* the record carries the content hash and the fingerprints of the bytes
SignaturesOf(row, data) ==
    /\ row.signature_sha256 = sha256(data)
    /\ row.signature_phash = perceptual_hashes_for_bytes(data).phash
    /\ row.signature_dhash = perceptual_hashes_for_bytes(data).dhash

\* C29: a record update of the backfill that follows a rewrite of the image
\* file stores the new watermark_hash together with signature_sha256,
\* signature_phash and signature_dhash of the rewritten file; no record gets a
\* new watermark_hash with a hash of the file as it was before.
C29_RewriteRehashes ==
    [][response'.kind = "backfill" =>
          \A id \in 1..Len(signatures) :
              LET path == signatures[id].file_path
              IN  /\ (signatures'[id] # signatures[id] /\ files'[path] # files[path])
                        => /\ signatures'[id].watermark_hash = CommentIdOf(files'[path].data)
                           /\ SignaturesOf(signatures'[id], files'[path].data)
                  /\ signatures'[id].watermark_hash # signatures[id].watermark_hash
                        => /\ signatures'[id].watermark_hash = CommentIdOf(files'[path].data)
                           /\ SignaturesOf(signatures'[id], files'[path].data)]_vars

\* a run has rewritten the file of an uploaded image with a new watermark, the
\* picture came out with another fingerprint, and the record has the new id
\* and the hashes of the new file
C29_Witness ==
    /\ response.kind = "backfill"
    /\ ~response.value[1]
    /\ response.value[2]
    /\ signatures[1].watermark_hash \in BackfillWatermarkIds
    /\ CommentIdOf(files[1].data) = signatures[1].watermark_hash
    /\ signatures[1].signature_dhash = HexDigitsOf(1, HashHexLen)
    /\ SignaturesOf(signatures[1], files[1].data)

\* ---------------------------------------------------------------- last page
\* the candidate pools held no image beyond those the blend emitted
PoolsExhausted ==
    Len(selection.prioritized_candidates) + Len(selection.random_candidates)
        <= Len(selection.blended)

AtOrAbove(id, key) ==
    LET c == _parse_cursor_point(key)
    IN  \/ catalog[id].observed_at > c.point
        \/ (catalog[id].observed_at = c.point /\ id >= c.image_id)

\* C24: with seen-tracking disabled the sort key in next_cursor splits the
\* prioritized candidates of the call: those at or above the key are in the
\* page, those below it are not, whatever max_per_uploader and max_consecutive
\* are.
C24_CursorSplitsPrioritized ==
    (/\ selection.called
     /\ ~UseSeen
     /\ FromBlend
     /\ WellFormedSortKey(SortKeyOf(selection.next_cursor)))
        => \A k \in 1..Len(selection.prioritized_candidates) :
              LET id == selection.prioritized_candidates[k]
              IN  AtOrAbove(id, SortKeyOf(selection.next_cursor))
                      <=> id \in SeqToSet(selection.images)

\* ---------------------------------------------------------------- skipped candidates
\* a cap blocks the image in the loop state b
CapBlocks(id, b) ==
    \/ /\ config.max_per_uploader > 0
       /\ b.per_uploader_counts[catalog[id].user_id] >= config.max_per_uploader
    \/ /\ config.max_consecutive > 0
       /\ b.last_uploader = catalog[id].user_id
       /\ b.consecutive >= config.max_consecutive

\* the candidates of the pool no cap blocks, in the pool's order
Eligibles(pool, b) ==
    LET Free(id) == ~CapBlocks(id, b)
    IN  SelectSeq(pool, Free)

\* the pool without the image
Without(pool, image) ==
    LET Other(id) == id # image
    IN  SelectSeq(pool, Other)

\* C27: in _blend_feed every pass emits the first candidate of the preferred
\* pool that no cap blocks, or of the other pool when the preferred one has
\* none; the emitted candidate is the only one to leave its pool and the others
\* keep their order; and the loop returns only when the page is full or
\* neither pool has a candidate that no cap blocks.
C27_SkipNotDrop ==
    [][LET b == blend.b
           nb == blend'.b
           preferred == IF b.prioritized_taken < BlendTarget THEN b.prioritized
                        ELSE b.global_new
           other == IF b.prioritized_taken < BlendTarget THEN b.global_new
                    ELSE b.prioritized
           expected == IF Eligibles(preferred, b) # <<>> THEN Eligibles(preferred, b)[1]
                       ELSE Eligibles(other, b)[1]
       IN  /\ nb # b =>
                 /\ Eligibles(preferred, b) \o Eligibles(other, b) # <<>>
                 /\ nb.output = Append(b.output, expected)
                 /\ nb.prioritized = Without(b.prioritized, expected)
                 /\ nb.global_new = Without(b.global_new, expected)
           /\ (blend'.returned /\ ~blend.returned) =>
                 /\ nb = b
                 /\ \/ Len(b.output) >= config.per_page
                    \/ Eligibles(b.prioritized, b) \o Eligibles(b.global_new, b) = <<>>]_vars

\* the loop has returned a full page, a prioritized candidate was emitted after
\* a newer one had been passed over, and that one is still in its pool
C27_Witness ==
    /\ blend.returned
    /\ Len(blend.b.output) = config.per_page
    /\ blend.b.last_prioritized # 0
    /\ \E k \in 1..Len(blend.b.prioritized) : Newer(blend.b.prioritized[k], blend.b.last_prioritized)

\* ---------------------------------------------------------------- retention
\* the row is older than the retention window
Expired(row) == row.seen_at < now - config.seen_retention_days

\* C28: _persist_seen_ids(v, ids, r) with ids not empty and r > 0 leaves no row
\* of v older than r days; rows of other viewers and rows of v within the
\* window stay as they are, and the only rows added are (v, id, now) for ids
\* of the call; with user_id None persist_seen_for_feed leaves the table as
\* it is.
C28_PruneOwnExpiredOnly ==
    [][LET v == current_user
           ids == local'[1].images
       IN  /\ (v # 0 /\ ids # <<>> /\ config.seen_retention_days > 0) =>
                 /\ \A row \in feed_seen' : row.user_id = v => ~Expired(row)
                 /\ \A row \in feed_seen :
                       (row.user_id # v \/ ~Expired(row)) => row \in feed_seen'
                 /\ \A row \in feed_seen' \ feed_seen :
                       /\ row.user_id = v
                       /\ row.image_id \in SeqToSet(ids)
                       /\ row.seen_at = now
           /\ v = 0 => feed_seen' = feed_seen]_vars

\* after a call for viewer 1 with a retention window: a new row of viewer 1,
\* none of its rows expired, and an expired row of viewer 2 still there
C28_Witness ==
    /\ current_user = 1
    /\ local[1].images # <<>>
    /\ config.seen_retention_days > 0
    /\ \E row \in feed_seen : row.user_id = 2 /\ Expired(row)
    /\ \E row \in feed_seen : row.user_id = 1 /\ row.seen_at = now
    /\ \E row \in feed_seen : row.user_id = 1 /\ row.seen_at < now
    /\ \A row \in feed_seen : row.user_id = 1 => ~Expired(row)

\* ---------------------------------------------------------------- end of paging
\* C25: on a static catalog a known viewer with seen-tracking on, retention and
\* seen_max_ids covering the catalog, who persists every page and requests
\* the next one while next_cursor is not empty, eventually receives an empty
\* next_cursor.
C25_PagingEnds == <>(selection.called /\ selection.next_cursor = EMPTY)

\* ---------------------------------------------------------------- my_feed pages
\* the image a comes before the image b in the (created_at, id) order, newest
\* first
CreatedBefore(a, b) ==
    \/ catalog[a].created_at > catalog[b].created_at
    \/ catalog[a].created_at = catalog[b].created_at /\ a > b

\* the last of the user's images in that order
LastOwnImage == CHOOSE a \in OwnImages : \A b \in OwnImages \ {a} : CreatedBefore(b, a)

\* C30: on a static set of the user's images, my_feed started without cursor
\* and followed by next_cursor returns every image of the user exactly once,
\* in strictly descending (created_at, id) order also when timestamps are
\* equal, and next_cursor is empty exactly on the page with the last image.
C30_MyFeedPagesAll ==
    response.kind = "my_feed" =>
        /\ selection.status = 200
        /\ SeqToSet(response.value) \subseteq OwnImages
        /\ \A i \in 1..Len(response.value) : \A j \in (i + 1)..Len(response.value) :
               CreatedBefore(response.value[i], response.value[j])
        /\ selection.next_cursor = EMPTY => SeqToSet(response.value) = OwnImages
        /\ OwnImages # {} =>
               (selection.next_cursor = EMPTY
                  <=> LastOwnImage \in SeqToSet(selection.images))

\* the last page of a feed of three images, where the page before ended
\* between two images of the same created_at
C30_Witness ==
    /\ response.kind = "my_feed"
    /\ selection.cursor # EMPTY
    /\ selection.next_cursor = EMPTY
    /\ Len(response.value) = MaxImages
    /\ selection.images # <<>>
    /\ \E i \in 1..(Len(response.value) - 1) :
          /\ response.value[i + 1] = selection.images[1]
          /\ catalog[response.value[i]].created_at
               = catalog[response.value[i + 1]].created_at

====
